---- MODULE Spec2Model ----
(***************************************************************************)
(* VHost lifecycle orchestration of ksyq12/vhost: the three backend        *)
(* drivers (internal/driver), the add / enable / disable / remove / ssl    *)
(* install workflows (internal/cli) and the registry (internal/config).    *)
(*                                                                         *)
(* The filesystem is the pair of directories of driver.Paths: "available"  *)
(* and "enabled", each a map from file name to directory entry.  A file    *)
(* name is the pair <<domain, extension>>, so that the Apache suffix       *)
(* convention (domain + ".conf") is a different name from the bare domain. *)
(* Filesystem calls fail only for the reasons the entry kinds give (a      *)
(* missing entry, a directory where a file is written); the process runs   *)
(* as root once requireRoot has passed.                                    *)
(***************************************************************************)
EXTENDS Integers, Sequences, FiniteSets, TLC

VARIABLES driverName, available, enabled, docroots, registry, last, running

vars == <<driverName, available, enabled, docroots, registry, last, running>>

-----------------------------------------------------------------------------
(* Bounded universes                                                       *)

Domains == {"a.com", "b.com"}

Drivers == {"nginx", "apache", "caddy"}

Exts == {"", ".conf"}

(* A name that starts with a dot.                                          *)
HiddenName == ".hidden"

FileNames == (Domains \cup {HiddenName}) \X Exts

-----------------------------------------------------------------------------
(* Directory entries                                                       *)

NoText == <<>>

NoPath == <<>>

ManualText == <<"manual">>

NoEntry == [kind |-> "none", data |-> NoText]

FileEntry(text) == [kind |-> "file", data |-> text]

DirEntry == [kind |-> "dir", data |-> NoText]

SymlinkEntry(source) == [kind |-> "symlink", data |-> source]

EmptyDir == [n \in FileNames |-> NoEntry]

(* A filesystem value: the two directories and the created document roots. *)
FS(a, e, r) == [available |-> a, enabled |-> e, docroots |-> r]

(* The result of a driver call: the filesystem it leaves and its error.    *)
Ret(fs, err) == [fs |-> fs, err |-> err]

Nil == "nil"

-----------------------------------------------------------------------------
(* Filesystem calls of package os, on one directory                        *)

(* os.Lstat: succeeds when any entry (file, directory or symlink, dangling *)
(* or not) is at the path.                                                 *)
LstatExists(dir, name) == dir[name].kind # "none"

(* os.Stat of a path in the available directory: succeeds for a file or a  *)
(* directory.                                                              *)
StatExists(dir, name) == dir[name].kind # "none"

IsSymlinkAnyEntry(dir, name) == dir[name].kind # "none"

(* info.Mode()&os.ModeSymlink != 0                                         *)
IsSymlink(dir, name) == dir[name].kind = "symlink"

(* os.WriteFile: truncates and writes; fails on a directory.               *)
WriteFileOK(dir, name) == dir[name].kind # "dir"

(* A variant of WriteFile that appends to the content already there.        *)
WriteFileAppending(dir, name, text) == [dir EXCEPT ![name] = FileEntry(dir[name].data \o text)]

WriteFile(dir, name, text) == [dir EXCEPT ![name] = FileEntry(text)]

(* os.Remove: unlinks a file or a symlink.  The directories of the model   *)
(* are non-empty ones, which os.Remove refuses (ENOTEMPTY); a missing      *)
(* entry gives an error for which os.IsNotExist holds.                     *)
RemoveIsNotExist(dir, name) == dir[name].kind = "none"

RemoveOK(dir, name) == dir[name].kind \in {"file", "symlink"}

(* strings.HasPrefix(name, ".") and strings.HasSuffix(name, ".conf") on the *)
(* names of the model.                                                     *)
HasDotPrefix(name) == name[1] = HiddenName

HasConfSuffix(name) == name[2] = ".conf"

(* os.ReadDir: the entries of the directory, or an error for which         *)
(* os.IsNotExist holds when the directory is missing.                      *)
ReadDir(dir, missing) ==
    IF missing THEN [err |-> "not exist", entries |-> {}]
    ELSE [err |-> Nil, entries |-> {n \in FileNames : dir[n].kind # "none"}]

(* A variant of os.Remove that empties the directory the entry is in.       *)
OsRemoveWholeDir(dir, name) == EmptyDir

OsRemove(dir, name) == [dir EXCEPT ![name] = NoEntry]

(* os.Symlink(source, target)                                              *)
OsSymlink(dir, source, target) == [dir EXCEPT ![target] = SymlinkEntry(source)]

-----------------------------------------------------------------------------
(* NginxDriver                                                             *)

NginxConfigFileName(domain) == <<domain, "">>

NginxIsEnabled(fs, domain) == LstatExists(fs.enabled, NginxConfigFileName(domain))

NginxAdd(fs, vhost, configContent) ==
    LET name == NginxConfigFileName(vhost.domain) IN
    IF ~WriteFileOK(fs.available, name)
    THEN Ret(fs, "failed to write config file")
    ELSE Ret(FS(WriteFile(fs.available, name, configContent),
                fs.enabled,
                IF vhost.root # "" THEN fs.docroots \cup {vhost.root} ELSE fs.docroots),
             Nil)

NginxDisable(fs, domain) ==
    LET target == NginxConfigFileName(domain) IN
    IF ~LstatExists(fs.enabled, target)
    THEN Ret(fs, "is not enabled")
    ELSE IF ~IsSymlink(fs.enabled, target)
    THEN Ret(fs, "is not a symlink, refusing to remove")
    ELSE Ret(FS(fs.available, OsRemove(fs.enabled, target), fs.docroots), Nil)

(* A variant of Remove that goes on to the config file when Disable fails.  *)
NginxRemoveIgnoresDisableError(fs, domain) ==
    LET configPath == NginxConfigFileName(domain)
        removeFile(dis) ==
            IF RemoveIsNotExist(dis.fs.available, configPath)
            THEN Ret(dis.fs, "not found")
            ELSE IF ~RemoveOK(dis.fs.available, configPath)
            THEN Ret(dis.fs, "failed to remove config file")
            ELSE Ret(FS(OsRemove(dis.fs.available, configPath), dis.fs.enabled,
                        dis.fs.docroots), Nil)
    IN  removeFile(IF NginxIsEnabled(fs, domain) THEN NginxDisable(fs, domain) ELSE Ret(fs, Nil))

NginxRemove(fs, domain) ==
    LET configPath == NginxConfigFileName(domain)
        removeFile(dis) ==
            IF dis.err # Nil
            THEN dis
            ELSE IF RemoveIsNotExist(dis.fs.available, configPath)
            THEN Ret(dis.fs, "not found")
            ELSE IF ~RemoveOK(dis.fs.available, configPath)
            THEN Ret(dis.fs, "failed to remove config file")
            ELSE Ret(FS(OsRemove(dis.fs.available, configPath), dis.fs.enabled,
                        dis.fs.docroots), Nil)
    IN  removeFile(IF NginxIsEnabled(fs, domain) THEN NginxDisable(fs, domain) ELSE Ret(fs, Nil))

(* A variant of Enable that reports success without creating the link.     *)
NginxEnableNoSymlink(fs, domain) ==
    LET source == NginxConfigFileName(domain)
        target == NginxConfigFileName(domain)
    IN  IF ~StatExists(fs.available, source)
        THEN Ret(fs, "not found in sites-available")
        ELSE IF LstatExists(fs.enabled, target)
        THEN Ret(fs, "is already enabled")
        ELSE Ret(fs, Nil)

(* A variant of Enable that links over whatever is at the activation path. *)
NginxEnableOverExisting(fs, domain) ==
    LET source == NginxConfigFileName(domain)
        target == NginxConfigFileName(domain)
    IN  IF ~StatExists(fs.available, source)
        THEN Ret(fs, "not found in sites-available")
        ELSE Ret(FS(fs.available, OsSymlink(fs.enabled, source, target), fs.docroots), Nil)

NginxEnable(fs, domain) ==
    LET source == NginxConfigFileName(domain)
        target == NginxConfigFileName(domain)
    IN  IF ~StatExists(fs.available, source)
        THEN Ret(fs, "not found in sites-available")
        ELSE IF LstatExists(fs.enabled, target)
        THEN Ret(fs, "is already enabled")
        ELSE Ret(FS(fs.available, OsSymlink(fs.enabled, source, target), fs.docroots), Nil)

(* A variant of List that reports a missing directory as an error.         *)
NginxListDirFailsOnMissing(fs, missing) ==
    LET listing(rd) ==
            IF rd.err # Nil
            THEN [names |-> {}, err |-> "failed to read sites-available"]
            ELSE [names |-> {n \in rd.entries :
                                fs.available[n].kind # "dir" /\ ~HasDotPrefix(n)},
                  err |-> Nil]
    IN  listing(ReadDir(fs.available, missing))

(* List returns entry names; the name of a bare domain d is <<d, "">>.      *)
NginxListDir(fs, missing) ==
    LET listing(rd) ==
            IF rd.err = "not exist"
            THEN [names |-> {}, err |-> Nil]
            ELSE [names |-> {n \in rd.entries :
                                fs.available[n].kind # "dir" /\ ~HasDotPrefix(n)},
                  err |-> Nil]
    IN  listing(ReadDir(fs.available, missing))

NginxList(fs) == NginxListDir(fs, FALSE).names

-----------------------------------------------------------------------------
(* ApacheDriver                                                            *)

ApacheConfigFileName(domain) == <<domain, ".conf">>

ApacheIsEnabled(fs, domain) == LstatExists(fs.enabled, ApacheConfigFileName(domain))

ApacheAdd(fs, vhost, configContent) ==
    LET name == ApacheConfigFileName(vhost.domain) IN
    IF ~WriteFileOK(fs.available, name)
    THEN Ret(fs, "failed to write config file")
    ELSE Ret(FS(WriteFile(fs.available, name, configContent),
                fs.enabled,
                IF vhost.root # "" THEN fs.docroots \cup {vhost.root} ELSE fs.docroots),
             Nil)

(* A variant of Disable that removes whatever is at the activation path.   *)
ApacheDisableAnyEntry(fs, domain) ==
    LET target == ApacheConfigFileName(domain) IN
    IF ~LstatExists(fs.enabled, target)
    THEN Ret(fs, "is not enabled")
    ELSE Ret(FS(fs.available, OsRemove(fs.enabled, target), fs.docroots), Nil)

ApacheDisable(fs, domain) ==
    LET target == ApacheConfigFileName(domain) IN
    IF ~LstatExists(fs.enabled, target)
    THEN Ret(fs, "is not enabled")
    ELSE IF ~IsSymlink(fs.enabled, target)
    THEN Ret(fs, "is not a symlink, refusing to remove")
    ELSE Ret(FS(fs.available, OsRemove(fs.enabled, target), fs.docroots), Nil)

ApacheRemove(fs, domain) ==
    LET configPath == ApacheConfigFileName(domain)
        removeFile(dis) ==
            IF dis.err # Nil
            THEN dis
            ELSE IF RemoveIsNotExist(dis.fs.available, configPath)
            THEN Ret(dis.fs, "not found")
            ELSE IF ~RemoveOK(dis.fs.available, configPath)
            THEN Ret(dis.fs, "failed to remove config file")
            ELSE Ret(FS(OsRemove(dis.fs.available, configPath), dis.fs.enabled,
                        dis.fs.docroots), Nil)
    IN  removeFile(IF ApacheIsEnabled(fs, domain) THEN ApacheDisable(fs, domain) ELSE Ret(fs, Nil))

ApacheEnable(fs, domain) ==
    LET source == ApacheConfigFileName(domain)
        target == ApacheConfigFileName(domain)
    IN  IF ~StatExists(fs.available, source)
        THEN Ret(fs, "not found in sites-available")
        ELSE IF LstatExists(fs.enabled, target)
        THEN Ret(fs, "is already enabled")
        ELSE Ret(FS(fs.available, OsSymlink(fs.enabled, source, target), fs.docroots), Nil)

(* strings.TrimSuffix(name, ".conf")                                       *)
TrimConfSuffix(name) == IF HasConfSuffix(name) THEN <<name[1], "">> ELSE name

(* Only names with the ".conf" suffix, with the suffix trimmed.            *)
ApacheListDir(fs, missing) ==
    LET listing(rd) ==
            IF rd.err = "not exist"
            THEN [names |-> {}, err |-> Nil]
            ELSE [names |-> {TrimConfSuffix(n) : n \in {m \in rd.entries :
                                /\ fs.available[m].kind # "dir"
                                /\ ~HasDotPrefix(m)
                                /\ HasConfSuffix(m)}},
                  err |-> Nil]
    IN  listing(ReadDir(fs.available, missing))

ApacheList(fs) == ApacheListDir(fs, FALSE).names

-----------------------------------------------------------------------------
(* CaddyDriver                                                             *)

CaddyConfigFileName(domain) == <<domain, "">>

CaddyIsEnabled(fs, domain) == LstatExists(fs.enabled, CaddyConfigFileName(domain))

CaddyAdd(fs, vhost, configContent) ==
    LET name == CaddyConfigFileName(vhost.domain) IN
    IF ~WriteFileOK(fs.available, name)
    THEN Ret(fs, "failed to write config file")
    ELSE Ret(FS(WriteFile(fs.available, name, configContent),
                fs.enabled,
                IF vhost.root # "" THEN fs.docroots \cup {vhost.root} ELSE fs.docroots),
             Nil)

CaddyDisable(fs, domain) ==
    LET target == CaddyConfigFileName(domain) IN
    IF ~LstatExists(fs.enabled, target)
    THEN Ret(fs, "is not enabled")
    ELSE IF ~IsSymlink(fs.enabled, target)
    THEN Ret(fs, "is not a symlink, refusing to remove")
    ELSE Ret(FS(fs.available, OsRemove(fs.enabled, target), fs.docroots), Nil)

CaddyRemove(fs, domain) ==
    LET configPath == CaddyConfigFileName(domain)
        removeFile(dis) ==
            IF dis.err # Nil
            THEN dis
            ELSE IF RemoveIsNotExist(dis.fs.available, configPath)
            THEN Ret(dis.fs, "not found")
            ELSE IF ~RemoveOK(dis.fs.available, configPath)
            THEN Ret(dis.fs, "failed to remove config file")
            ELSE Ret(FS(OsRemove(dis.fs.available, configPath), dis.fs.enabled,
                        dis.fs.docroots), Nil)
    IN  removeFile(IF CaddyIsEnabled(fs, domain) THEN CaddyDisable(fs, domain) ELSE Ret(fs, Nil))

CaddyEnable(fs, domain) ==
    LET source == CaddyConfigFileName(domain)
        target == CaddyConfigFileName(domain)
    IN  IF ~StatExists(fs.available, source)
        THEN Ret(fs, "not found in sites-available")
        ELSE IF LstatExists(fs.enabled, target)
        THEN Ret(fs, "is already enabled")
        ELSE Ret(FS(fs.available, OsSymlink(fs.enabled, source, target), fs.docroots), Nil)

(* List returns entry names; the name of a bare domain d is <<d, "">>.      *)
CaddyListDir(fs, missing) ==
    LET listing(rd) ==
            IF rd.err = "not exist"
            THEN [names |-> {}, err |-> Nil]
            ELSE [names |-> {n \in rd.entries :
                                fs.available[n].kind # "dir" /\ ~HasDotPrefix(n)},
                  err |-> Nil]
    IN  listing(ReadDir(fs.available, missing))

CaddyList(fs) == CaddyListDir(fs, FALSE).names

-----------------------------------------------------------------------------
(* driver.Driver: the interface, dispatched on the driver that             *)
(* createDriverWithPaths built for cfg.Driver.                             *)

Add(drv, fs, vhost, configContent) ==
    CASE drv = "nginx"  -> NginxAdd(fs, vhost, configContent)
      [] drv = "apache" -> ApacheAdd(fs, vhost, configContent)
      [] drv = "caddy"  -> CaddyAdd(fs, vhost, configContent)

Remove(drv, fs, domain) ==
    CASE drv = "nginx"  -> NginxRemove(fs, domain)
      [] drv = "apache" -> ApacheRemove(fs, domain)
      [] drv = "caddy"  -> CaddyRemove(fs, domain)

Enable(drv, fs, domain) ==
    CASE drv = "nginx"  -> NginxEnable(fs, domain)
      [] drv = "apache" -> ApacheEnable(fs, domain)
      [] drv = "caddy"  -> CaddyEnable(fs, domain)

Disable(drv, fs, domain) ==
    CASE drv = "nginx"  -> NginxDisable(fs, domain)
      [] drv = "apache" -> ApacheDisable(fs, domain)
      [] drv = "caddy"  -> CaddyDisable(fs, domain)

IsEnabled(drv, fs, domain) ==
    CASE drv = "nginx"  -> NginxIsEnabled(fs, domain)
      [] drv = "apache" -> ApacheIsEnabled(fs, domain)
      [] drv = "caddy"  -> CaddyIsEnabled(fs, domain)

List(drv, fs) ==
    CASE drv = "nginx"  -> NginxList(fs)
      [] drv = "apache" -> ApacheList(fs)
      [] drv = "caddy"  -> CaddyList(fs)

ListDir(drv, fs, missing) ==
    CASE drv = "nginx"  -> NginxListDir(fs, missing)
      [] drv = "apache" -> ApacheListDir(fs, missing)
      [] drv = "caddy"  -> CaddyListDir(fs, missing)

(* The file name a driver gives a domain.                                  *)
ConfigFileName(drv, domain) ==
    CASE drv = "nginx"  -> NginxConfigFileName(domain)
      [] drv = "apache" -> ApacheConfigFileName(domain)
      [] drv = "caddy"  -> CaddyConfigFileName(domain)

(* Test runs the backend's syntax checker; execOK is the exit status of    *)
(* that external command.                                                  *)
Test(drv, execOK) == IF execOK THEN Nil ELSE "config test failed"

(* Reload runs the service-manager command and, when that fails, the       *)
(* backend's own reload command.                                           *)
ServiceName(drv) ==
    CASE drv = "nginx"  -> "nginx"
      [] drv = "apache" -> "apache2"
      [] drv = "caddy"  -> "caddy"

ServiceCommand(drv) == <<"systemctl", "reload", ServiceName(drv)>>

FallbackCommand(drv) ==
    CASE drv = "nginx"  -> <<"nginx", "-s", "reload">>
      [] drv = "apache" -> <<"apache2ctl", "graceful">>
      [] drv = "caddy"  -> <<"caddy", "reload", "--config", "/etc/caddy/Caddyfile">>

(* One executed external command and whether it exited with status 0.      *)
Exec(cmd, ok) == [cmd |-> cmd, ok |-> ok]

(* A variant of Reload that runs the fallback command whatever the first   *)
(* command returned.                                                       *)
ReloadRunAlwaysFallsBack(drv, systemctlOK, fallbackOK) ==
    [err  |-> IF fallbackOK THEN Nil ELSE "failed to reload",
     cmds |-> <<Exec(ServiceCommand(drv), systemctlOK), Exec(FallbackCommand(drv), fallbackOK)>>]

(* The body of Reload: its error and the commands it executed, given the   *)
(* exit status each command has when run.                                  *)
ReloadRun(drv, systemctlOK, fallbackOK) ==
    IF systemctlOK
    THEN [err |-> Nil, cmds |-> <<Exec(ServiceCommand(drv), TRUE)>>]
    ELSE [err  |-> IF fallbackOK THEN Nil ELSE "failed to reload",
          cmds |-> <<Exec(ServiceCommand(drv), FALSE), Exec(FallbackCommand(drv), fallbackOK)>>]

Reload(drv, systemctlOK, fallbackOK) == ReloadRun(drv, systemctlOK, fallbackOK).err

-----------------------------------------------------------------------------
(* package config: the registry (Config.VHosts) and the vhost types        *)

TypeStatic == "static"
TypePHP == "php"
TypeProxy == "proxy"
TypeLaravel == "laravel"
TypeWordPress == "wordpress"

ValidTypes == {TypeStatic, TypePHP, TypeProxy, TypeLaravel, TypeWordPress}

IsValidType(t) == t \in ValidTypes

DefaultPHP == "8.2"

NoVHost == [exists |-> FALSE]

VHost(domain, type, root, proxyPass, php, ssl, sslCert, sslKey, isEnabled) ==
    [exists |-> TRUE, domain |-> domain, type |-> type, root |-> root,
     proxyPass |-> proxyPass, phpVersion |-> php, ssl |-> ssl,
     sslCert |-> sslCert, sslKey |-> sslKey, enabled |-> isEnabled]

EmptyRegistry == [d \in Domains |-> NoVHost]

-----------------------------------------------------------------------------
(* package template                                                        *)

TemplateDrivers == {"nginx", "apache"}

(* The rendered text is the template of (driver, type) with the fields of  *)
(* TemplateData substituted: the tuple of all of them stands for the text. *)
Render(drv, vhost) ==
    IF drv \notin TemplateDrivers
    THEN [err |-> "unknown driver", text |-> NoText]
    ELSE IF vhost.type \notin ValidTypes
    THEN [err |-> "template not found", text |-> NoText]
    ELSE [err |-> Nil,
          text |-> <<drv, vhost.type, vhost.domain, vhost.root, vhost.proxyPass,
                     IF vhost.phpVersion = "" THEN "8.2" ELSE vhost.phpVersion,
                     vhost.ssl, vhost.sslCert, vhost.sslKey>>]

-----------------------------------------------------------------------------
(* Command-line arguments the model draws from                             *)

EmptyDomain == ""

HyphenDomain == "-a.com"

(* Commands are issued for one domain; the other domain of the universe is *)
(* a bystander whose file, link and registry entry no command names.       *)
TargetDomain == "a.com"

Bystander == "b.com"

DomainArgs == {TargetDomain, EmptyDomain, HyphenDomain}

AbsRoot == "/srv/www"

RelRoot == "www"

ProxyURL == "http://127.0.0.1:3000"

(* validateDomain, on the sample arguments: the empty string, a leading    *)
(* hyphen, and well-formed host names.                                     *)
validateDomain(domain) ==
    IF domain = EmptyDomain THEN "domain cannot be empty"
    ELSE IF domain = HyphenDomain THEN "domain cannot start or end with hyphen"
    ELSE Nil

validateRoot(root) ==
    IF root = "" THEN Nil
    ELSE IF root = RelRoot THEN "root path must be absolute"
    ELSE Nil

validateProxyURL(proxyURL) == Nil

validateAddOptions(type, root, proxyPass) ==
    IF type \in {TypeStatic, TypePHP, TypeLaravel, TypeWordPress}
    THEN IF root = "" THEN "--root is required" ELSE validateRoot(root)
    ELSE IF type = TypeProxy
    THEN IF proxyPass = "" THEN "--proxy is required" ELSE validateProxyURL(proxyPass)
    ELSE Nil

(* A variant of requireRoot that lets every user through.                  *)
requireRootAlwaysOK(isRoot) == Nil

requireRoot(isRoot) == IF isRoot THEN Nil ELSE "this operation requires root privileges"

-----------------------------------------------------------------------------
(* Workflow plumbing: a context carries the filesystem through the driver  *)
(* calls of one invocation and records the call trace and the warnings.    *)

Ev(call, domain, err) == [call |-> call, domain |-> domain, err |-> err]

Ctx(drv, fs) == [drv |-> drv, fs |-> fs, trace |-> <<>>, warns |-> <<>>, err |-> Nil]

Warn(c, msg) == [c EXCEPT !.warns = Append(@, msg)]

CallAdd(c, vhost, text) ==
    LET record(r) ==
            [c EXCEPT !.fs = r.fs, !.err = r.err,
                      !.trace = Append(@, Ev("Add", vhost.domain, r.err))]
    IN  record(Add(c.drv, c.fs, vhost, text))

CallRemove(c, domain) ==
    LET record(r) ==
            [c EXCEPT !.fs = r.fs, !.err = r.err,
                      !.trace = Append(@, Ev("Remove", domain, r.err))]
    IN  record(Remove(c.drv, c.fs, domain))

CallEnable(c, domain) ==
    LET record(r) ==
            [c EXCEPT !.fs = r.fs, !.err = r.err,
                      !.trace = Append(@, Ev("Enable", domain, r.err))]
    IN  record(Enable(c.drv, c.fs, domain))

CallDisable(c, domain) ==
    LET record(r) ==
            [c EXCEPT !.fs = r.fs, !.err = r.err,
                      !.trace = Append(@, Ev("Disable", domain, r.err))]
    IN  record(Disable(c.drv, c.fs, domain))

CallTest(c, o) ==
    LET record(e) == [c EXCEPT !.err = e, !.trace = Append(@, Ev("Test", "", e))]
    IN  record(Test(c.drv, o.test))

CallReload(c, o) ==
    LET record(e) == [c EXCEPT !.err = e, !.trace = Append(@, Ev("Reload", "", e))]
    IN  record(Reload(c.drv, o.systemctl, o.fallback))

(* What an invocation returns: the filesystem and the registry file it     *)
(* leaves, its error (Nil for a nil error), which output it printed, the   *)
(* driver call trace and the warnings.                                     *)
Result(fs, reg, err, out, c) ==
    [fs |-> fs, reg |-> reg, err |-> err, out |-> out,
     trace |-> c.trace, warns |-> c.warns]

(* An early return: nothing called, nothing changed.                       *)
Abort(fs, reg, err) ==
    [fs |-> fs, reg |-> reg, err |-> err, out |-> "error",
     trace |-> <<>>, warns |-> <<>>]

(* saveConfig: Config.Save writes the whole loaded configuration.          *)
saveConfig(reg, cfg, saveOK) == IF saveOK THEN cfg ELSE reg

-----------------------------------------------------------------------------
(* The rollback closures.  A closure is named by the workflow that builds  *)
(* it; "nil" is the nil closure that runDisable, runRemove and             *)
(* runSSLInstall pass.                                                     *)

(* Variants of the rollback of runAdd: one that leaves the config file in   *)
(* place, one that removes the file before it deactivates.                 *)
addRollbackDisableOnly(c, domain) == CallDisable(c, domain)

addRollbackRemoveFirst(c, domain) ==
    LET afterDisable(d) == IF d.err # Nil THEN Warn(d, "Rollback disable failed") ELSE d
        afterRemove(r) == IF r.err # Nil THEN [r EXCEPT !.err = "rollback remove failed"] ELSE r
    IN  afterDisable(CallDisable(afterRemove(CallRemove(c, domain)), domain))

(* rollback of runAdd                                                      *)
addRollback(c, domain) ==
    LET afterDisable(d) == IF d.err # Nil THEN Warn(d, "Rollback disable failed") ELSE d
        afterRemove(r) == IF r.err # Nil THEN [r EXCEPT !.err = "rollback remove failed"] ELSE r
    IN  afterRemove(CallRemove(afterDisable(CallDisable(c, domain)), domain))

(* A variant of the rollback of runEnable that leaves the link in place.   *)
enableRollbackNothing(c, domain) == c

(* rollback of runEnable                                                   *)
enableRollback(c, domain) == CallDisable(c, domain)

runRollback(rollback, c, domain) ==
    CASE rollback = "add"    -> addRollback(c, domain)
      [] rollback = "enable" -> enableRollback(c, domain)

(* Variants of testAndReload: one that reloads whatever the test said, one *)
(* that also rolls back when the reload fails.                             *)
testAndReloadIgnoringTest(c, reload, rollback, domain, o) ==
    LET afterReload(r) == IF r.err # Nil THEN [r EXCEPT !.err = "failed to reload"] ELSE r
        afterTest(t) == IF reload THEN afterReload(CallReload(t, o)) ELSE t
    IN  afterTest(CallTest(c, o))

testAndReloadRollbackOnReload(c, reload, rollback, domain, o) ==
    LET afterRollback(rb) ==
            IF rb.err # Nil
            THEN [Warn(rb, "Rollback failed") EXCEPT !.err = "configuration test failed"]
            ELSE [rb EXCEPT !.err = "configuration test failed"]
        afterUndo(u) == [u EXCEPT !.err = "failed to reload"]
        afterReload(r) ==
            IF r.err # Nil
            THEN IF rollback # "nil" THEN afterUndo(runRollback(rollback, r, domain))
                 ELSE [r EXCEPT !.err = "failed to reload"]
            ELSE r
        afterTest(t) ==
            IF t.err # Nil
            THEN IF rollback # "nil"
                 THEN afterRollback(runRollback(rollback, t, domain))
                 ELSE [t EXCEPT !.err = "configuration test failed"]
            ELSE IF reload THEN afterReload(CallReload(t, o))
            ELSE t
    IN  afterTest(CallTest(c, o))

(* A variant of testAndReload that reloads before it tests.                *)
testAndReloadReloadFirst(c, reload, rollback, domain, o) ==
    LET afterRollback(rb) ==
            IF rb.err # Nil
            THEN [Warn(rb, "Rollback failed") EXCEPT !.err = "configuration test failed"]
            ELSE [rb EXCEPT !.err = "configuration test failed"]
        afterTest(t) ==
            IF t.err # Nil
            THEN IF rollback # "nil"
                 THEN afterRollback(runRollback(rollback, t, domain))
                 ELSE [t EXCEPT !.err = "configuration test failed"]
            ELSE t
        afterReload(r) ==
            IF r.err # Nil THEN [r EXCEPT !.err = "failed to reload"]
            ELSE afterTest(CallTest(r, o))
    IN  IF reload THEN afterReload(CallReload(c, o)) ELSE afterTest(CallTest(c, o))

(* A variant of testAndReload that reloads whatever the caller asked.       *)
testAndReloadAlwaysReloads(c, reload, rollback, domain, o) ==
    LET afterRollback(rb) ==
            IF rb.err # Nil
            THEN [Warn(rb, "Rollback failed") EXCEPT !.err = "configuration test failed"]
            ELSE [rb EXCEPT !.err = "configuration test failed"]
        afterReload(r) == IF r.err # Nil THEN [r EXCEPT !.err = "failed to reload"] ELSE r
        afterTest(t) ==
            IF t.err # Nil
            THEN IF rollback # "nil"
                 THEN afterRollback(runRollback(rollback, t, domain))
                 ELSE [t EXCEPT !.err = "configuration test failed"]
            ELSE afterReload(CallReload(t, o))
    IN  afterTest(CallTest(c, o))

(* testAndReload(drv, reload, rollback)                                    *)
testAndReload(c, reload, rollback, domain, o) ==
    LET afterRollback(rb) ==
            IF rb.err # Nil
            THEN [Warn(rb, "Rollback failed") EXCEPT !.err = "configuration test failed"]
            ELSE [rb EXCEPT !.err = "configuration test failed"]
        afterReload(r) == IF r.err # Nil THEN [r EXCEPT !.err = "failed to reload"] ELSE r
        afterTest(t) ==
            IF t.err # Nil
            THEN IF rollback # "nil"
                 THEN afterRollback(runRollback(rollback, t, domain))
                 ELSE [t EXCEPT !.err = "configuration test failed"]
            ELSE IF reload THEN afterReload(CallReload(t, o))
            ELSE t
    IN  afterTest(CallTest(c, o))

-----------------------------------------------------------------------------
(* runAdd                                                                  *)

(* A variant of runAdd that reports a failed registry save as the failure  *)
(* of the command.                                                         *)
runAddFailsOnSave(drv, fs, reg, in, o) ==
    LET domain == in.domain
        cfg    == reg
        vhost0 == VHost(domain, in.type, in.root, in.proxyPass, in.php, in.ssl,
                        NoPath, NoPath, TRUE)
        vhost  == IF in.php = "" /\ in.type \in {TypePHP, TypeLaravel, TypeWordPress}
                  THEN [vhost0 EXCEPT !.phpVersion = DefaultPHP] ELSE vhost0
        afterSave(w) ==
            Result(w.fs, saveConfig(reg, [cfg EXCEPT ![domain] = vhost], o.save),
                   Nil, "success", w)
        afterTest(t) ==
            IF t.err # Nil THEN Result(t.fs, reg, t.err, "error", t)
            ELSE IF ~o.save
            THEN Result(t.fs, reg, "failed to save config", "error",
                        Warn(t, "VHost created but config save failed"))
            ELSE afterSave(t)
        afterCleanup(rb) == Result(rb.fs, reg, "failed to enable vhost", "error", rb)
        afterEnable(e) ==
            IF e.err # Nil THEN afterCleanup(CallRemove(e, domain))
            ELSE afterTest(testAndReload(e, ~in.noReload, "add", domain, o))
        afterAdd(a) ==
            IF a.err # Nil THEN Result(a.fs, reg, "failed to add vhost", "error", a)
            ELSE afterEnable(CallEnable(a, domain))
        afterRender(rendered) ==
            IF rendered.err # Nil THEN Abort(fs, reg, "failed to render template")
            ELSE IF in.dryRun THEN Result(fs, reg, Nil, "dryrun", Ctx(drv, fs))
            ELSE IF requireRoot(in.isRoot) # Nil THEN Abort(fs, reg, requireRoot(in.isRoot))
            ELSE afterAdd(CallAdd(Ctx(drv, fs), vhost, rendered.text))
    IN
    IF validateDomain(domain) # Nil THEN Abort(fs, reg, validateDomain(domain))
    ELSE IF ~IsValidType(in.type) THEN Abort(fs, reg, "invalid type")
    ELSE IF validateAddOptions(in.type, in.root, in.proxyPass) # Nil
    THEN Abort(fs, reg, validateAddOptions(in.type, in.root, in.proxyPass))
    ELSE IF cfg[domain].exists THEN Abort(fs, reg, "vhost already exists")
    ELSE afterRender(Render(drv, vhost))

runAdd(drv, fs, reg, in, o) ==
    LET domain == in.domain
        cfg    == reg
        vhost0 == VHost(domain, in.type, in.root, in.proxyPass, in.php, in.ssl,
                        NoPath, NoPath, TRUE)
        vhost  == IF in.php = "" /\ in.type \in {TypePHP, TypeLaravel, TypeWordPress}
                  THEN [vhost0 EXCEPT !.phpVersion = DefaultPHP] ELSE vhost0
        afterSave(w) ==
            Result(w.fs, saveConfig(reg, [cfg EXCEPT ![domain] = vhost], o.save),
                   Nil, "success", w)
        afterTest(t) ==
            IF t.err # Nil THEN Result(t.fs, reg, t.err, "error", t)
            ELSE afterSave(IF o.save THEN t
                           ELSE Warn(t, "VHost created but config save failed"))
        afterCleanup(rb) == Result(rb.fs, reg, "failed to enable vhost", "error", rb)
        afterEnable(e) ==
            IF e.err # Nil THEN afterCleanup(CallRemove(e, domain))
            ELSE afterTest(testAndReload(e, ~in.noReload, "add", domain, o))
        afterAdd(a) ==
            IF a.err # Nil THEN Result(a.fs, reg, "failed to add vhost", "error", a)
            ELSE afterEnable(CallEnable(a, domain))
        afterRender(rendered) ==
            IF rendered.err # Nil THEN Abort(fs, reg, "failed to render template")
            ELSE IF in.dryRun THEN Result(fs, reg, Nil, "dryrun", Ctx(drv, fs))
            ELSE IF requireRoot(in.isRoot) # Nil THEN Abort(fs, reg, requireRoot(in.isRoot))
            ELSE afterAdd(CallAdd(Ctx(drv, fs), vhost, rendered.text))
    IN
    IF validateDomain(domain) # Nil THEN Abort(fs, reg, validateDomain(domain))
    ELSE IF ~IsValidType(in.type) THEN Abort(fs, reg, "invalid type")
    ELSE IF validateAddOptions(in.type, in.root, in.proxyPass) # Nil
    THEN Abort(fs, reg, validateAddOptions(in.type, in.root, in.proxyPass))
    ELSE IF cfg[domain].exists THEN Abort(fs, reg, "vhost already exists")
    ELSE afterRender(Render(drv, vhost))

-----------------------------------------------------------------------------
(* runEnable                                                               *)

(* A variant of runEnable that disables the vhost when Enable fails.        *)
runEnableDisablesOnFailure(drv, fs, reg, in, o) ==
    LET domain == in.domain
        cfg    == reg
        afterSave(w) ==
            Result(w.fs, saveConfig(reg, [cfg EXCEPT ![domain].enabled = TRUE], o.save),
                   Nil, "success", w)
        afterTest(t) ==
            IF t.err # Nil THEN Result(t.fs, reg, t.err, "error", t)
            ELSE IF cfg[domain].exists
            THEN afterSave(IF o.save THEN t
                           ELSE Warn(t, "VHost enabled but config save failed"))
            ELSE Result(t.fs, reg, Nil, "success", t)
        afterCleanup(rb) == Result(rb.fs, reg, "failed to enable vhost", "error", rb)
        afterEnable(e) ==
            IF e.err # Nil THEN afterCleanup(CallDisable(e, domain))
            ELSE afterTest(testAndReload(e, ~in.noReload, "enable", domain, o))
    IN
    IF validateDomain(domain) # Nil THEN Abort(fs, reg, validateDomain(domain))
    ELSE IF in.dryRun THEN Result(fs, reg, Nil, "dryrun", Ctx(drv, fs))
    ELSE IF requireRoot(in.isRoot) # Nil THEN Abort(fs, reg, requireRoot(in.isRoot))
    ELSE afterEnable(CallEnable(Ctx(drv, fs), domain))

(* A variant of runEnable that registers a domain the registry lacks.       *)
runEnableRegisters(drv, fs, reg, in, o) ==
    LET domain == in.domain
        cfg    == reg
        entry  == IF cfg[domain].exists THEN [cfg[domain] EXCEPT !.enabled = TRUE]
                  ELSE VHost(domain, TypeStatic, "", "", "", FALSE, NoPath, NoPath, TRUE)
        afterSave(w) ==
            Result(w.fs, saveConfig(reg, [cfg EXCEPT ![domain] = entry], o.save),
                   Nil, "success", w)
        afterTest(t) ==
            IF t.err # Nil THEN Result(t.fs, reg, t.err, "error", t)
            ELSE afterSave(IF o.save THEN t
                           ELSE Warn(t, "VHost enabled but config save failed"))
        afterEnable(e) ==
            IF e.err # Nil THEN Result(e.fs, reg, "failed to enable vhost", "error", e)
            ELSE afterTest(testAndReload(e, ~in.noReload, "enable", domain, o))
    IN
    IF validateDomain(domain) # Nil THEN Abort(fs, reg, validateDomain(domain))
    ELSE IF in.dryRun THEN Result(fs, reg, Nil, "dryrun", Ctx(drv, fs))
    ELSE IF requireRoot(in.isRoot) # Nil THEN Abort(fs, reg, requireRoot(in.isRoot))
    ELSE afterEnable(CallEnable(Ctx(drv, fs), domain))

runEnable(drv, fs, reg, in, o) ==
    LET domain == in.domain
        cfg    == reg
        afterSave(w) ==
            Result(w.fs, saveConfig(reg, [cfg EXCEPT ![domain].enabled = TRUE], o.save),
                   Nil, "success", w)
        afterTest(t) ==
            IF t.err # Nil THEN Result(t.fs, reg, t.err, "error", t)
            ELSE IF cfg[domain].exists
            THEN afterSave(IF o.save THEN t
                           ELSE Warn(t, "VHost enabled but config save failed"))
            ELSE Result(t.fs, reg, Nil, "success", t)
        afterEnable(e) ==
            IF e.err # Nil THEN Result(e.fs, reg, "failed to enable vhost", "error", e)
            ELSE afterTest(testAndReload(e, ~in.noReload, "enable", domain, o))
    IN
    IF validateDomain(domain) # Nil THEN Abort(fs, reg, validateDomain(domain))
    ELSE IF in.dryRun THEN Result(fs, reg, Nil, "dryrun", Ctx(drv, fs))
    ELSE IF requireRoot(in.isRoot) # Nil THEN Abort(fs, reg, requireRoot(in.isRoot))
    ELSE afterEnable(CallEnable(Ctx(drv, fs), domain))

-----------------------------------------------------------------------------
(* runDisable                                                              *)

(* A variant of runDisable that treats a failed post-disable check as the  *)
(* failure of the command.                                                 *)
runDisableFailsOnCheck(drv, fs, reg, in, o) ==
    LET domain == in.domain
        cfg    == reg
        afterSave(w) ==
            Result(w.fs, saveConfig(reg, [cfg EXCEPT ![domain].enabled = FALSE], o.save),
                   Nil, "success", w)
        afterTest(t) ==
            IF t.err # Nil THEN Result(t.fs, reg, t.err, "error", t)
            ELSE IF cfg[domain].exists
            THEN afterSave(IF o.save THEN t
                           ELSE Warn(t, "VHost disabled but config save failed"))
            ELSE Result(t.fs, reg, Nil, "success", t)
        afterDisable(d) ==
            IF d.err # Nil THEN Result(d.fs, reg, "failed to disable vhost", "error", d)
            ELSE afterTest(testAndReload(d, ~in.noReload, "nil", domain, o))
    IN
    IF validateDomain(domain) # Nil THEN Abort(fs, reg, validateDomain(domain))
    ELSE IF in.dryRun THEN Result(fs, reg, Nil, "dryrun", Ctx(drv, fs))
    ELSE IF requireRoot(in.isRoot) # Nil THEN Abort(fs, reg, requireRoot(in.isRoot))
    ELSE afterDisable(CallDisable(Ctx(drv, fs), domain))

(* A variant of runDisable that saves the registry without clearing the    *)
(* Enabled flag.                                                           *)
runDisableKeepsFlag(drv, fs, reg, in, o) ==
    LET domain == in.domain
        cfg    == reg
        afterSave(w) ==
            Result(w.fs, saveConfig(reg, cfg, o.save), Nil, "success", w)
        afterWarn(u) ==
            IF cfg[domain].exists
            THEN afterSave(IF o.save THEN u
                           ELSE Warn(u, "VHost disabled but config save failed"))
            ELSE Result(u.fs, reg, Nil, "success", u)
        afterTest(t) ==
            afterWarn(IF t.err # Nil THEN Warn(t, "Post-disable check failed") ELSE t)
        afterDisable(d) ==
            IF d.err # Nil THEN Result(d.fs, reg, "failed to disable vhost", "error", d)
            ELSE afterTest(testAndReload(d, ~in.noReload, "nil", domain, o))
    IN
    IF validateDomain(domain) # Nil THEN Abort(fs, reg, validateDomain(domain))
    ELSE IF in.dryRun THEN Result(fs, reg, Nil, "dryrun", Ctx(drv, fs))
    ELSE IF requireRoot(in.isRoot) # Nil THEN Abort(fs, reg, requireRoot(in.isRoot))
    ELSE afterDisable(CallDisable(Ctx(drv, fs), domain))

runDisable(drv, fs, reg, in, o) ==
    LET domain == in.domain
        cfg    == reg
        afterSave(w) ==
            Result(w.fs, saveConfig(reg, [cfg EXCEPT ![domain].enabled = FALSE], o.save),
                   Nil, "success", w)
        afterWarn(u) ==
            IF cfg[domain].exists
            THEN afterSave(IF o.save THEN u
                           ELSE Warn(u, "VHost disabled but config save failed"))
            ELSE Result(u.fs, reg, Nil, "success", u)
        afterTest(t) ==
            afterWarn(IF t.err # Nil THEN Warn(t, "Post-disable check failed") ELSE t)
        afterDisable(d) ==
            IF d.err # Nil THEN Result(d.fs, reg, "failed to disable vhost", "error", d)
            ELSE afterTest(testAndReload(d, ~in.noReload, "nil", domain, o))
    IN
    IF validateDomain(domain) # Nil THEN Abort(fs, reg, validateDomain(domain))
    ELSE IF in.dryRun THEN Result(fs, reg, Nil, "dryrun", Ctx(drv, fs))
    ELSE IF requireRoot(in.isRoot) # Nil THEN Abort(fs, reg, requireRoot(in.isRoot))
    ELSE afterDisable(CallDisable(Ctx(drv, fs), domain))

-----------------------------------------------------------------------------
(* runRemove                                                               *)

(* strings.TrimSpace(strings.ToLower(answer)) on the sample answers.       *)
(* The empty string is what ReadString returns at end of input.            *)
AnswerArgs == {" YES", "y", "n", "\n", ""}

(* A variant of the normalisation that compares the line as typed.          *)
TrimLowerAsTyped(answer) == answer

TrimLower(answer) ==
    CASE answer = " YES" -> "yes"
      [] answer = "\n"   -> ""
      [] OTHER           -> answer

(* A variant of runRemove that treats a failed post-removal check as the   *)
(* failure of the command.                                                 *)
runRemoveFailsOnCheck(drv, fs, reg, in, o) ==
    LET domain == in.domain
        cfg    == reg
        answer == TrimLower(in.answer)
        afterSave(w) ==
            Result(w.fs, saveConfig(reg, [cfg EXCEPT ![domain] = NoVHost], o.save),
                   Nil, "success", w)
        afterTest(t) ==
            IF t.err # Nil THEN Result(t.fs, reg, t.err, "error", t)
            ELSE afterSave(IF o.save THEN t
                           ELSE Warn(t, "VHost removed but config save failed"))
        afterRemove(r) ==
            IF r.err # Nil THEN Result(r.fs, reg, "failed to remove vhost", "error", r)
            ELSE afterTest(testAndReload(r, ~in.noReload, "nil", domain, o))
    IN
    IF validateDomain(domain) # Nil THEN Abort(fs, reg, validateDomain(domain))
    ELSE IF requireRoot(in.isRoot) # Nil THEN Abort(fs, reg, requireRoot(in.isRoot))
    ELSE IF ~in.force /\ answer # "y" /\ answer # "yes"
    THEN Result(fs, reg, Nil, "cancelled", Ctx(drv, fs))
    ELSE afterRemove(CallRemove(Ctx(drv, fs), domain))

(* A variant of runRemove that goes on after drv.Remove failed.            *)
runRemoveIgnoresDriverError(drv, fs, reg, in, o) ==
    LET domain == in.domain
        cfg    == reg
        answer == TrimLower(in.answer)
        afterSave(w) ==
            Result(w.fs, saveConfig(reg, [cfg EXCEPT ![domain] = NoVHost], o.save),
                   Nil, "success", w)
        afterWarn(u) ==
            afterSave(IF o.save THEN u ELSE Warn(u, "VHost removed but config save failed"))
        afterTest(t) ==
            afterWarn(IF t.err # Nil THEN Warn(t, "Post-removal check failed") ELSE t)
        afterRemove(r) ==
            afterTest(testAndReload(r, ~in.noReload, "nil", domain, o))
    IN
    IF validateDomain(domain) # Nil THEN Abort(fs, reg, validateDomain(domain))
    ELSE IF requireRoot(in.isRoot) # Nil THEN Abort(fs, reg, requireRoot(in.isRoot))
    ELSE IF ~in.force /\ answer # "y" /\ answer # "yes"
    THEN Result(fs, reg, Nil, "cancelled", Ctx(drv, fs))
    ELSE afterRemove(CallRemove(Ctx(drv, fs), domain))

runRemove(drv, fs, reg, in, o) ==
    LET domain == in.domain
        cfg    == reg
        answer == TrimLower(in.answer)
        afterSave(w) ==
            Result(w.fs, saveConfig(reg, [cfg EXCEPT ![domain] = NoVHost], o.save),
                   Nil, "success", w)
        afterWarn(u) ==
            afterSave(IF o.save THEN u ELSE Warn(u, "VHost removed but config save failed"))
        afterTest(t) ==
            afterWarn(IF t.err # Nil THEN Warn(t, "Post-removal check failed") ELSE t)
        afterRemove(r) ==
            IF r.err # Nil THEN Result(r.fs, reg, "failed to remove vhost", "error", r)
            ELSE afterTest(testAndReload(r, ~in.noReload, "nil", domain, o))
    IN
    IF validateDomain(domain) # Nil THEN Abort(fs, reg, validateDomain(domain))
    ELSE IF requireRoot(in.isRoot) # Nil THEN Abort(fs, reg, requireRoot(in.isRoot))
    ELSE IF ~in.force /\ answer # "y" /\ answer # "yes"
    THEN Result(fs, reg, Nil, "cancelled", Ctx(drv, fs))
    ELSE afterRemove(CallRemove(Ctx(drv, fs), domain))

-----------------------------------------------------------------------------
(* runSSLInstall                                                           *)

letsencryptDir == "/etc/letsencrypt/live"

(* ssl.GetCertPaths                                                        *)
CertPath(domain) == <<letsencryptDir, domain, "fullchain.pem">>

KeyPath(domain) == <<letsencryptDir, domain, "privkey.pem">>

runSSLInstall(drv, fs, reg, in, o) ==
    LET domain == in.domain
        cfg    == reg
        sslVHost(v) == [v EXCEPT !.ssl = TRUE, !.sslCert = CertPath(domain),
                                 !.sslKey = KeyPath(domain)]
        afterSave(w) ==
            Result(w.fs,
                   saveConfig(reg, [cfg EXCEPT ![domain] = sslVHost(cfg[domain])], o.save),
                   Nil, "success", w)
        afterTest(t) ==
            IF t.err # Nil THEN Result(t.fs, reg, t.err, "error", t)
            ELSE afterSave(IF o.save THEN t
                           ELSE Warn(t, "SSL installed but config save failed"))
        afterEnable(e) ==
            IF e.err # Nil THEN Result(e.fs, reg, "failed to enable vhost", "error", e)
            ELSE afterTest(testAndReload(e, TRUE, "nil", domain, o))
        afterAdd(a) ==
            IF a.err # Nil THEN Result(a.fs, reg, "failed to update vhost config", "error", a)
            ELSE afterEnable(CallEnable(a, domain))
        afterRemove(r, text) ==
            afterAdd(CallAdd(IF r.err # Nil THEN Warn(r, "Could not remove old config") ELSE r,
                             sslVHost(cfg[domain]), text))
        afterDisable(d, text) ==
            afterRemove(CallRemove(IF d.err # Nil
                                   THEN [Warn(d, "Failed to disable before update")
                                            EXCEPT !.err = Nil]
                                   ELSE d, domain), text)
        afterIsEnabled(c, text) ==
            afterDisable(IF IsEnabled(drv, c.fs, domain) THEN CallDisable(c, domain) ELSE c,
                         text)
        afterRender(rendered) ==
            IF rendered.err # Nil THEN Abort(fs, reg, "failed to render template")
            ELSE afterIsEnabled([Ctx(drv, fs) EXCEPT
                                    !.trace = Append(@, Ev("IsEnabled", domain, Nil))],
                                rendered.text)
    IN
    IF validateDomain(domain) # Nil THEN Abort(fs, reg, validateDomain(domain))
    ELSE IF ~in.certbot THEN Abort(fs, reg, "certbot is not installed")
    ELSE IF ~cfg[domain].exists THEN Abort(fs, reg, "vhost not found")
    ELSE IF ~in.issue THEN Abort(fs, reg, "failed to issue certificate")
    ELSE afterRender(Render(drv, sslVHost(cfg[domain])))

-----
(* The state machine: one action per command, run to completion.  `last`   *)
(* is the record of the latest invocation: its command line, what it       *)
(* returned, and the filesystem and registry it started from.              *)

(* Exit statuses of the external commands and of the registry write, drawn *)
(* per invocation.  The fallback reload command only runs after the        *)
(* service-manager command failed, so its status is drawn only then.       *)
Oracles ==
    {o \in [test : BOOLEAN, systemctl : BOOLEAN, fallback : BOOLEAN, save : BOOLEAN] :
        o.systemctl => o.fallback}

AllOK == [test |-> TRUE, systemctl |-> TRUE, fallback |-> TRUE, save |-> TRUE]

Reached(res, call) == \E i \in DOMAIN res.trace : res.trace[i].call = call

(* The exit statuses an invocation can observe: an invocation that returns *)
(* before drv.Test reads none of them, and one run with --no-reload does   *)
(* not read the reload commands' statuses.                                 *)
OraclesFor(res, noReload) ==
    IF ~Reached(res, "Test") THEN {AllOK}
    ELSE IF noReload THEN {o \in Oracles : o.systemctl}
    ELSE Oracles

(* --no-reload is read by testAndReload only.                              *)
NoReloadFor(res) == IF Reached(res, "Test") THEN BOOLEAN ELSE {FALSE}

CurrentFS == FS(available, enabled, docroots)

Invocation(op, in, res) ==
    [op |-> op, domain |-> in.domain, noReload |-> in.noReload, dryRun |-> in.dryRun,
     isRoot |-> in.isRoot, force |-> in.force,
     answer |-> IF "answer" \in DOMAIN in THEN in.answer ELSE "",
     type |-> in.type, root |-> in.root, proxyPass |-> in.proxyPass,
     err |-> res.err, out |-> res.out, trace |-> res.trace, warns |-> res.warns,
     cmds |-> <<>>, text |-> NoText, listed |-> {},
     preFS |-> CurrentFS, preReg |-> registry]

NoInvocation ==
    [op |-> "none", domain |-> "", noReload |-> FALSE, dryRun |-> FALSE,
     isRoot |-> FALSE, force |-> FALSE, answer |-> "", type |-> "", root |-> "", proxyPass |-> "",
     err |-> Nil, out |-> "none", trace |-> <<>>, warns |-> <<>>, cmds |-> <<>>,
     text |-> NoText, listed |-> {},
     preFS |-> FS(EmptyDir, EmptyDir, {}), preReg |-> EmptyRegistry]

(* Invocations of `vhost add` that run at the same time, each its own     *)
(* process: where it is in runAdd, the domain it was given, the registry  *)
(* it loaded and the error it returns.                                     *)
Procs == {1, 2}

NotRunning == [pc |-> "start", domain |-> "", cfg |-> EmptyRegistry, err |-> Nil, saved |-> FALSE]

NoneRunning == [p \in Procs |-> NotRunning]

(* No invocation is running: the previous process has exited.              *)
Idle == last = NoInvocation

Commit(op, in, res) ==
    /\ available' = res.fs.available
    /\ enabled' = res.fs.enabled
    /\ docroots' = res.fs.docroots
    /\ registry' = res.reg
    /\ last' = Invocation(op, in, res)
    /\ UNCHANGED <<driverName, running>>

Flags(domain, noReload, dryRun, isRoot, force) ==
    [domain |-> domain, noReload |-> noReload, dryRun |-> dryRun, isRoot |-> isRoot,
     force |-> force, type |-> "", root |-> "", proxyPass |-> ""]

(* The add command lines the model draws from: a static site, a PHP site   *)
(* (which takes the default PHP version), a reverse proxy, a proxy and a   *)
(* static site given both --root and --proxy, and requests that validation *)
(* rejects.                                                                *)
AddArgs ==
    { [type |-> TypeStatic, root |-> AbsRoot, proxyPass |-> ""],
      [type |-> TypeProxy,  root |-> AbsRoot, proxyPass |-> ProxyURL],
      [type |-> TypeStatic, root |-> AbsRoot, proxyPass |-> ProxyURL],
      [type |-> TypePHP,    root |-> AbsRoot, proxyPass |-> ""],
      [type |-> TypeProxy,  root |-> "",      proxyPass |-> ProxyURL],
      [type |-> TypeStatic, root |-> "",      proxyPass |-> ""],
      [type |-> TypeStatic, root |-> RelRoot, proxyPass |-> ""],
      [type |-> TypeProxy,  root |-> "",      proxyPass |-> ""],
      [type |-> "bogus",    root |-> AbsRoot, proxyPass |-> ""] }

AddInput(domain, a, noReload, dryRun, isRoot) ==
    [domain |-> domain, noReload |-> noReload, dryRun |-> dryRun, isRoot |-> isRoot,
     force |-> FALSE, type |-> a.type, root |-> a.root, proxyPass |-> a.proxyPass,
     php |-> "", ssl |-> FALSE]

(* An invalid domain is rejected before the options are read.             *)
AddArgsFor(domain) ==
    IF validateDomain(domain) = Nil THEN AddArgs
    ELSE {[type |-> TypeStatic, root |-> AbsRoot, proxyPass |-> ""]}

(* --dry-run and the effective user id are read only by an invocation that *)
(* passes validation and the registry lookup: such an invocation, started  *)
(* with --dry-run, ends as a dry run unless rendering fails first, which   *)
(* happens with and without --dry-run and before the user id is read.      *)
FlagArgs(gate) ==
    IF gate.out = "dryrun" THEN BOOLEAN \X BOOLEAN
    ELSE IF gate.err = "failed to render template" THEN BOOLEAN \X {TRUE}
    ELSE {<<FALSE, TRUE>>}

AddCmd ==
    /\ Idle
    /\ \E domain \in DomainArgs : \E a \in AddArgsFor(domain) :
           LET gate == runAdd(driverName, CurrentFS, registry,
                              AddInput(domain, a, FALSE, TRUE, TRUE), AllOK)
           IN  \E f \in FlagArgs(gate) :
               LET probe == runAdd(driverName, CurrentFS, registry,
                                   AddInput(domain, a, FALSE, f[1], f[2]), AllOK)
               IN  \E noReload \in NoReloadFor(probe) : \E o \in OraclesFor(probe, noReload) :
                       LET in == AddInput(domain, a, noReload, f[1], f[2])
                       IN  Commit("add", in, runAdd(driverName, CurrentFS, registry, in, o))

EnableCmd ==
    /\ Idle
    /\ \E domain \in DomainArgs :
           LET gate == runEnable(driverName, CurrentFS, registry,
                                 Flags(domain, FALSE, TRUE, TRUE, FALSE), AllOK)
           IN  \E f \in FlagArgs(gate) :
               LET probe == runEnable(driverName, CurrentFS, registry,
                                      Flags(domain, FALSE, f[1], f[2], FALSE), AllOK)
               IN  \E noReload \in NoReloadFor(probe) : \E o \in OraclesFor(probe, noReload) :
                       LET in == Flags(domain, noReload, f[1], f[2], FALSE)
                       IN  Commit("enable", in, runEnable(driverName, CurrentFS, registry, in, o))

DisableCmd ==
    /\ Idle
    /\ \E domain \in DomainArgs :
           LET gate == runDisable(driverName, CurrentFS, registry,
                                  Flags(domain, FALSE, TRUE, TRUE, FALSE), AllOK)
           IN  \E f \in FlagArgs(gate) :
               LET probe == runDisable(driverName, CurrentFS, registry,
                                       Flags(domain, FALSE, f[1], f[2], FALSE), AllOK)
               IN  \E noReload \in NoReloadFor(probe) : \E o \in OraclesFor(probe, noReload) :
                       LET in == Flags(domain, noReload, f[1], f[2], FALSE)
                       IN  Commit("disable", in, runDisable(driverName, CurrentFS, registry, in, o))

RemoveInput(domain, noReload, dryRun, isRoot, force, answer) ==
    [domain |-> domain, noReload |-> noReload, dryRun |-> dryRun, isRoot |-> isRoot,
     force |-> force, type |-> "", root |-> "", proxyPass |-> "", answer |-> answer]

(* remove reads the effective user id right after validating the domain,   *)
(* and --force and the confirmation answer only as root; the answer is     *)
(* read only without --force.                                              *)
RemoveFlagArgs(domain) ==
    IF validateDomain(domain) = Nil THEN BOOLEAN \X BOOLEAN ELSE {<<FALSE, TRUE>>}

ForceArgs(isRoot) == IF isRoot THEN BOOLEAN ELSE {FALSE}

AnswersFor(isRoot, force) == IF isRoot /\ ~force THEN AnswerArgs ELSE {""}

RemoveCmd ==
    /\ Idle
    /\ \E domain \in DomainArgs : \E f \in RemoveFlagArgs(domain) :
         \E force \in ForceArgs(f[2]) : \E answer \in AnswersFor(f[2], force) :
           LET probe == runRemove(driverName, CurrentFS, registry,
                                  RemoveInput(domain, FALSE, f[1], f[2], force, answer), AllOK)
           IN  \E noReload \in NoReloadFor(probe) : \E o \in OraclesFor(probe, noReload) :
                   LET in == RemoveInput(domain, noReload, f[1], f[2], force, answer)
                   IN  Commit("remove", in, runRemove(driverName, CurrentFS, registry, in, o))

SSLInput(domain, certbot, issue) ==
    [domain |-> domain, noReload |-> FALSE, dryRun |-> FALSE, isRoot |-> TRUE,
     force |-> FALSE, type |-> "", root |-> "", proxyPass |-> "",
     certbot |-> certbot, issue |-> issue]

(* certbot is run only if it is installed.                                 *)
IssueArgs(certbot) == IF certbot THEN BOOLEAN ELSE {FALSE}

SSLInstallCmd ==
    /\ Idle
    /\ \E domain \in DomainArgs, certbot \in BOOLEAN : \E issue \in IssueArgs(certbot) :
           LET in    == SSLInput(domain, certbot, issue)
               probe == runSSLInstall(driverName, CurrentFS, registry, in, AllOK)
           IN  \E o \in OraclesFor(probe, FALSE) :
                   Commit("ssl install", in, runSSLInstall(driverName, CurrentFS, registry, in, o))

(* The machine the tool is started on: any driver; for the target domain   *)
(* any combination of a hand-written config file, a directory or nothing   *)
(* in "available", a symlink, a regular file, a directory or nothing in    *)
(* "enabled", and                                                          *)
(* a registry entry (enabled or not) or none; the                          *)
(* bystander is either absent or fully present (file, link and entry).     *)
InitAvailableEntries == {NoEntry, FileEntry(ManualText), DirEntry}

InitEnabledEntries(n) == {NoEntry, FileEntry(ManualText), DirEntry, SymlinkEntry(n)}

InitVHosts(d) ==
    {NoVHost} \cup
    {VHost(d, TypeStatic, AbsRoot, "", "", FALSE, NoPath, NoPath, b) : b \in BOOLEAN}

BystanderPresent(drv) ==
    LET n == ConfigFileName(drv, Bystander) IN
    [a |-> FileEntry(ManualText), e |-> SymlinkEntry(n),
     v |-> VHost(Bystander, TypeStatic, AbsRoot, "", "", FALSE, NoPath, NoPath, TRUE)]

BystanderAbsent == [a |-> NoEntry, e |-> NoEntry, v |-> NoVHost]

InitDir(drv, target, bystander) ==
    [n \in FileNames |->
        IF n = ConfigFileName(drv, TargetDomain) THEN target
        ELSE IF n = ConfigFileName(drv, Bystander) THEN bystander
        ELSE NoEntry]

Init ==
    /\ driverName \in Drivers
    /\ \E b \in {BystanderAbsent, BystanderPresent(driverName)} :
        /\ \E a \in InitAvailableEntries : available = InitDir(driverName, a, b.a)
        /\ \E e \in InitEnabledEntries(ConfigFileName(driverName, TargetDomain)) :
               enabled = InitDir(driverName, e, b.e)
        /\ \E v \in InitVHosts(TargetDomain) :
               registry = [d \in Domains |-> IF d = TargetDomain THEN v ELSE b.v]
    /\ docroots = {}
    /\ last = NoInvocation
    /\ running = NoneRunning

(* The process exits after its one command; the record of the invocation  *)
(* is dropped and the next command line can be typed.                      *)
Execute ==
    /\ ~Idle
    /\ last' = NoInvocation
    /\ UNCHANGED <<driverName, available, enabled, docroots, registry, running>>

Next == AddCmd \/ EnableCmd \/ DisableCmd \/ RemoveCmd \/ SSLInstallCmd \/ Execute

Spec == Init /\ [][Next]_vars

-----------------------------------------------------------------------------
(* The driver on its own: a caller (the driver's tests, the commands above) *)
(* holds a Driver and calls its operations one after another on the target *)
(* domain.  `last` records the latest call: its name in op, its error, its *)
(* boolean result in out, the filesystem it started from in preFS, and in  *)
(* trace the latest HistoryLen calls with their errors.                    *)

HistoryLen == 2

Window(s) == IF Len(s) > HistoryLen THEN Tail(s) ELSE s

BoolOut(b) == IF b THEN "true" ELSE "false"

(* Config texts handed to drv.Add.                                         *)
ConfigTexts == {ManualText, <<"generated">>}

(* text is the config text handed to drv.Add, NoText for the other calls.  *)
DriverCallWith(call, domain, text, ret, result) ==
    /\ available' = ret.fs.available
    /\ enabled' = ret.fs.enabled
    /\ docroots' = ret.fs.docroots
    /\ last' = [NoInvocation EXCEPT !.op = call, !.domain = domain, !.text = text,
                                    !.err = ret.err, !.out = result,
                                    !.trace = Window(Append(last.trace, Ev(call, domain, ret.err))),
                                    !.preFS = CurrentFS]
    /\ UNCHANGED <<driverName, registry, running>>

DriverCall(call, domain, ret, result) == DriverCallWith(call, domain, NoText, ret, result)

DrvAdd ==
    \E configContent \in ConfigTexts :
        DriverCallWith("Add", TargetDomain, configContent,
                   Add(driverName, CurrentFS,
                       VHost(TargetDomain, TypeStatic, AbsRoot, "", "", FALSE,
                             NoPath, NoPath, TRUE),
                       configContent),
                   "none")

DrvRemove == DriverCall("Remove", TargetDomain, Remove(driverName, CurrentFS, TargetDomain), "none")

DrvEnable == DriverCall("Enable", TargetDomain, Enable(driverName, CurrentFS, TargetDomain), "none")

DrvDisable == DriverCall("Disable", TargetDomain, Disable(driverName, CurrentFS, TargetDomain), "none")

DrvIsEnabled ==
    DriverCall("IsEnabled", TargetDomain, Ret(CurrentFS, Nil),
               BoolOut(IsEnabled(driverName, CurrentFS, TargetDomain)))

(* drv.Reload, for each exit status its two commands can have; cmds holds   *)
(* the commands it executed.                                               *)
DrvReload ==
    \E systemctlOK \in BOOLEAN, fallbackOK \in BOOLEAN :
        /\ last' = [NoInvocation EXCEPT
                       !.op = "Reload",
                       !.err = Reload(driverName, systemctlOK, fallbackOK),
                       !.cmds = ReloadRun(driverName, systemctlOK, fallbackOK).cmds,
                       !.trace = Window(Append(last.trace,
                                     Ev("Reload", "", Reload(driverName, systemctlOK, fallbackOK)))),
                       !.preFS = CurrentFS]
        /\ UNCHANGED <<driverName, available, enabled, docroots, registry, running>>

(* A directory with no entries may as well not exist: every other driver   *)
(* operation finds nothing in either case and Add creates it.  out records *)
(* which of the two List met, listed the names it returned.                *)
MissingArgs == IF available = EmptyDir THEN BOOLEAN ELSE {FALSE}

DrvList ==
    \E missing \in MissingArgs :
        /\ last' = [NoInvocation EXCEPT
                       !.op = "List",
                       !.err = ListDir(driverName, CurrentFS, missing).err,
                       !.listed = ListDir(driverName, CurrentFS, missing).names,
                       !.out = IF missing THEN "missing" ELSE "read",
                       !.trace = Window(Append(last.trace,
                                     Ev("List", "", ListDir(driverName, CurrentFS, missing).err))),
                       !.preFS = CurrentFS]
        /\ UNCHANGED <<driverName, available, enabled, docroots, registry, running>>

(* Entries in the available directory that are not config files of the     *)
(* driver: a hidden file and a file named by the other convention.         *)
StrayName(drv) ==
    <<Bystander, IF ConfigFileName(drv, Bystander)[2] = "" THEN ".conf" ELSE "">>

Clutter(drv, dir, hidden, stray) ==
    [dir EXCEPT ![ConfigFileName(drv, HiddenName)] =
                    IF hidden THEN FileEntry(ManualText) ELSE NoEntry,
                ![StrayName(drv)] =
                    IF stray THEN FileEntry(ManualText) ELSE NoEntry]

InitDriver ==
    /\ driverName \in Drivers
    /\ \E b \in {BystanderAbsent, BystanderPresent(driverName)} :
        /\ \E a \in InitAvailableEntries, hidden \in BOOLEAN, stray \in BOOLEAN :
               available = Clutter(driverName, InitDir(driverName, a, b.a), hidden, stray)
        /\ \E e \in InitEnabledEntries(ConfigFileName(driverName, TargetDomain)) :
               enabled = InitDir(driverName, e, b.e)
    /\ registry = EmptyRegistry
    /\ docroots = {}
    /\ last = NoInvocation
    /\ running = NoneRunning

NextDriver ==
    DrvAdd \/ DrvRemove \/ DrvEnable \/ DrvDisable \/ DrvIsEnabled \/ DrvReload \/ DrvList

SpecDriver == InitDriver /\ [][NextDriver]_vars

-----------------------------------------------------------------------------
(* The tool on a machine it has to itself from the start: both directories *)
(* and the registry are empty, add, enable, disable and remove are run one *)
(* after another, and every write of the registry file succeeds.           *)

SaveWarnings ==
    { "VHost created but config save failed", "VHost enabled but config save failed",
      "VHost disabled but config save failed", "VHost removed but config save failed" }

SavesSucceeded(inv) == \A i \in DOMAIN inv.warns : inv.warns[i] \notin SaveWarnings

InitEmpty ==
    /\ driverName \in Drivers
    /\ available = EmptyDir
    /\ enabled = EmptyDir
    /\ registry = EmptyRegistry
    /\ docroots = {}
    /\ last = NoInvocation
    /\ running = NoneRunning

NextEmpty ==
    /\ AddCmd \/ EnableCmd \/ DisableCmd \/ RemoveCmd \/ Execute
    /\ SavesSucceeded(last')

SpecEmpty == InitEmpty /\ [][NextEmpty]_vars

-----------------------------------------------------------------------------
(* Two `vhost add <domain> --type static --root /srv/www` processes        *)
(* started as root at the same time on an empty machine.  Nothing in       *)
(* runAdd, the drivers or Config.Save takes a lock, so the processes       *)
(* interleave between any two of their calls: the registry load, each      *)
(* driver call, each external command and the registry write are one step  *)
(* each.                                                                   *)

(* The vhost runAdd builds from the command line.                          *)
NewVHost(domain) == VHost(domain, TypeStatic, AbsRoot, "", "", FALSE, NoPath, NoPath, TRUE)

(* One step of process p: the filesystem it leaves, the call it makes next *)
(* and the error it will return.                                           *)
Step(p, fs, pc, err) ==
    /\ available' = fs.available
    /\ enabled' = fs.enabled
    /\ docroots' = fs.docroots
    /\ running' = [running EXCEPT ![p].pc = pc, ![p].err = err]
    /\ UNCHANGED <<driverName, registry, last>>

(* Validation, loadConfigAndDriver, the registry look-up and Render.       *)
LoadStep ==
    \E p \in Procs, domain \in Domains :
        /\ running[p].pc = "start"
        /\ running' = [running EXCEPT ![p] =
               IF registry[domain].exists
               THEN [@ EXCEPT !.pc = "done", !.domain = domain, !.err = "vhost already exists"]
               ELSE IF Render(driverName, NewVHost(domain)).err # Nil
               THEN [@ EXCEPT !.pc = "done", !.domain = domain,
                              !.err = "failed to render template"]
               ELSE [@ EXCEPT !.pc = "Add", !.domain = domain, !.cfg = registry]]
        /\ UNCHANGED <<driverName, available, enabled, docroots, registry, last>>

AddStep ==
    \E p \in Procs :
        /\ running[p].pc = "Add"
        /\ LET vhost == NewVHost(running[p].domain)
               done(r) == IF r.err # Nil THEN Step(p, r.fs, "done", "failed to add vhost")
                          ELSE Step(p, r.fs, "Enable", Nil)
           IN  done(Add(driverName, CurrentFS, vhost, Render(driverName, vhost).text))

(* A variant of EnableStep that leaves the config file in place when       *)
(* drv.Enable fails.                                                       *)
EnableStepKeepsFile ==
    \E p \in Procs :
        /\ running[p].pc = "Enable"
        /\ LET done(r) == IF r.err # Nil THEN Step(p, r.fs, "done", "failed to enable vhost")
                          ELSE Step(p, r.fs, "Test", Nil)
           IN  done(Enable(driverName, CurrentFS, running[p].domain))

EnableStep ==
    \E p \in Procs :
        /\ running[p].pc = "Enable"
        /\ LET done(r) == IF r.err # Nil THEN Step(p, r.fs, "Remove", "failed to enable vhost")
                          ELSE Step(p, r.fs, "Test", Nil)
           IN  done(Enable(driverName, CurrentFS, running[p].domain))

(* testAndReload's drv.Test; the rollback closure is next when it fails.   *)
TestStep ==
    \E p \in Procs, execOK \in BOOLEAN :
        /\ running[p].pc = "Test"
        /\ IF Test(driverName, execOK) # Nil
           THEN Step(p, CurrentFS, "Disable", "configuration test failed")
           ELSE Step(p, CurrentFS, "Reload", Nil)

(* The rollback closure's drv.Disable; its error is only a warning.        *)
DisableStep ==
    \E p \in Procs :
        /\ running[p].pc = "Disable"
        /\ Step(p, Disable(driverName, CurrentFS, running[p].domain).fs, "Remove",
                running[p].err)

(* drv.Remove, after a failed drv.Enable or at the end of the rollback     *)
(* closure; the command returns the error of the call that failed before.  *)
RemoveStep ==
    \E p \in Procs :
        /\ running[p].pc = "Remove"
        /\ Step(p, Remove(driverName, CurrentFS, running[p].domain).fs, "done",
                running[p].err)

ReloadStep ==
    \E p \in Procs, systemctlOK \in BOOLEAN, fallbackOK \in BOOLEAN :
        /\ running[p].pc = "Reload"
        /\ systemctlOK => fallbackOK
        /\ IF Reload(driverName, systemctlOK, fallbackOK) # Nil
           THEN Step(p, CurrentFS, "done", "failed to reload")
           ELSE Step(p, CurrentFS, "Save", Nil)

(* A variant of SaveStep that writes the new entry into the registry as it *)
(* is at the time of the write.                                            *)
SaveStepMerging ==
    \E p \in Procs, saveOK \in BOOLEAN :
        /\ running[p].pc = "Save"
        /\ registry' = saveConfig(registry,
                                  [registry EXCEPT ![running[p].domain] =
                                       NewVHost(running[p].domain)],
                                  saveOK)
        /\ running' = [running EXCEPT ![p].pc = "done", ![p].saved = saveOK]
        /\ UNCHANGED <<driverName, available, enabled, docroots, last>>

(* cfg.VHosts[domain] = vhost and saveConfig(cfg): the registry this       *)
(* process loaded, with its one new entry, replaces the registry file.  A  *)
(* failed write is a warning only.                                         *)
SaveStep ==
    \E p \in Procs, saveOK \in BOOLEAN :
        /\ running[p].pc = "Save"
        /\ registry' = saveConfig(registry,
                                  [running[p].cfg EXCEPT ![running[p].domain] =
                                       NewVHost(running[p].domain)],
                                  saveOK)
        /\ running' = [running EXCEPT ![p].pc = "done", ![p].saved = saveOK]
        /\ UNCHANGED <<driverName, available, enabled, docroots, last>>

InitConcurrent ==
    /\ driverName \in Drivers
    /\ available = EmptyDir
    /\ enabled = EmptyDir
    /\ registry = EmptyRegistry
    /\ docroots = {}
    /\ last = NoInvocation
    /\ running = NoneRunning

NextConcurrent ==
    \/ LoadStep \/ AddStep \/ EnableStep \/ TestStep \/ DisableStep
    \/ RemoveStep \/ ReloadStep \/ SaveStep

SpecConcurrent == InitConcurrent /\ [][NextConcurrent]_vars

-----------------------------------------------------------------------------
(* Properties.  Each is a predicate on the state right after an invocation: *)
(* `last` holds the command line, the error returned, the driver call      *)
(* trace and the filesystem and registry the invocation started from; the  *)
(* variables hold what it left.                                            *)

Called(call) == \E i \in DOMAIN last.trace : last.trace[i].call = call

Succeeded(call) ==
    \E i \in DOMAIN last.trace : last.trace[i].call = call /\ last.trace[i].err = Nil

Failed(call) ==
    \E i \in DOMAIN last.trace : last.trace[i].call = call /\ last.trace[i].err # Nil

Warned(msg) == \E i \in DOMAIN last.warns : last.warns[i] = msg

(* The file name of the domain of the latest invocation.                   *)
TargetFile == ConfigFileName(driverName, last.domain)

(* The vhost the latest add command line asks for, and its rendered text.  *)
RequestedVHost ==
    VHost(last.domain, last.type, last.root, last.proxyPass,
          IF last.type \in {TypePHP, TypeLaravel, TypeWordPress} THEN DefaultPHP ELSE "",
          FALSE, NoPath, NoPath, TRUE)

(* The latest add command line passes validation and rendering.            *)
AddRequestAccepted ==
    /\ validateDomain(last.domain) = Nil
    /\ IsValidType(last.type)
    /\ validateAddOptions(last.type, last.root, last.proxyPass) = Nil
    /\ Render(driverName, RequestedVHost).err = Nil

(* C1: in every invocation, each drv.Reload call comes after a drv.Test    *)
(* call of the same invocation that returned success, and no drv.Reload    *)
(* call comes after a drv.Test call that failed.                           *)
C1_ReloadOnlyAfterTestPassed ==
    \A i \in DOMAIN last.trace :
        last.trace[i].call = "Reload" =>
            /\ \E j \in 1..(i - 1) :
                   last.trace[j].call = "Test" /\ last.trace[j].err = Nil
            /\ \A j \in 1..(i - 1) :
                   last.trace[j].call = "Test" => last.trace[j].err = Nil

(* An ssl install invocation that reloaded.                                *)
C1_Witness == last.op = "ssl install" /\ Called("Reload")

(* C2: when drv.Add and drv.Enable succeeded and drv.Test failed during    *)
(* Add, runAdd leaves no config file and no enabled entry for the domain,  *)
(* leaves the registry as it was, without an entry for the domain, and     *)
(* returns the "configuration test failed" error.                          *)
C2_AddTestFailureRollsBack ==
    (last.op = "add" /\ Succeeded("Add") /\ Succeeded("Enable") /\ Failed("Test")) =>
        /\ available[TargetFile] = NoEntry
        /\ enabled[TargetFile] = NoEntry
        /\ registry = last.preReg
        /\ ~registry[last.domain].exists
        /\ last.err = "configuration test failed"

(* An Add whose test failed after the file and the link were written.      *)
C2_Witness ==
    /\ last.op = "add" /\ Succeeded("Add") /\ Succeeded("Enable") /\ Failed("Test")
    /\ last.preFS.available[TargetFile] = NoEntry

(* C3: an Add, Enable, Disable or Remove invocation that returns an error  *)
(* other than the reload failure leaves the available directory, the       *)
(* enabled directory and the registry exactly as they were before it.      *)
C3_FailedWorkflowRestoresState ==
    (/\ last.op \in {"add", "enable", "disable", "remove"}
     /\ last.err # Nil
     /\ last.err # "failed to reload") =>
        /\ available = last.preFS.available
        /\ enabled = last.preFS.enabled
        /\ registry = last.preReg

(* C4: when drv.Enable succeeded and drv.Test failed during Add, the       *)
(* rollback calls drv.Disable, which removes the link, and only afterwards *)
(* drv.Remove.                                                             *)
C4_RollbackDisablesBeforeRemove ==
    (last.op = "add" /\ Succeeded("Enable") /\ Failed("Test")) =>
        \E i, j \in DOMAIN last.trace :
            /\ i < j
            /\ last.trace[i] = Ev("Disable", last.domain, Nil)
            /\ last.trace[j].call = "Remove" /\ last.trace[j].domain = last.domain
            /\ \A k \in DOMAIN last.trace : last.trace[k].call = "Remove" => i < k
            /\ \A k \in DOMAIN last.trace : last.trace[k].call = "Test" => k < i

(* An Add that rolled back after a failed test.                            *)
C4_Witness ==
    last.op = "add" /\ Succeeded("Enable") /\ Failed("Test") /\ Called("Remove")

(* C5: when drv.Test succeeded and drv.Reload failed during Add, neither   *)
(* drv.Disable nor drv.Remove is called, the config file with the rendered *)
(* text and the activation link are present when runAdd returns, and       *)
(* runAdd returns an error.                                                *)
C5_ReloadFailureNoRollback ==
    (last.op = "add" /\ Succeeded("Test") /\ Failed("Reload")) =>
        /\ ~Called("Disable")
        /\ ~Called("Remove")
        /\ available[TargetFile] = FileEntry(Render(driverName, RequestedVHost).text)
        /\ enabled[TargetFile] = SymlinkEntry(TargetFile)
        /\ last.err # Nil

(* An Add whose reload failed after a passed test.                         *)
C5_Witness == last.op = "add" /\ Succeeded("Test") /\ Failed("Reload")

(* C6: an Add (as root, not a dry run, with a request that passes          *)
(* validation and rendering) for a domain that already has a config file   *)
(* in the available directory returns the already-exists error and leaves  *)
(* that file, the enabled directory and the registry unchanged.            *)
C6_AddRefusesExistingFile ==
    (/\ last.op = "add" /\ ~last.dryRun /\ last.isRoot
     /\ AddRequestAccepted
     /\ last.preFS.available[TargetFile].kind = "file") =>
        /\ last.err = "vhost already exists"
        /\ available[TargetFile] = last.preFS.available[TargetFile]
        /\ enabled = last.preFS.enabled
        /\ registry = last.preReg

(* C7 as stated: whenever runAdd returns success, drv.IsEnabled(domain) is *)
(* true and drv.List() includes the domain.                                *)
C7_AddSuccessEnabledAndListed ==
    (last.op = "add" /\ last.err = Nil) =>
        /\ IsEnabled(driverName, CurrentFS, last.domain)
        /\ <<last.domain, "">> \in List(driverName, CurrentFS)

(* C7 amended: whenever runAdd returns success and was not a dry run,      *)
(* drv.IsEnabled(domain) is true and drv.List() includes the domain.       *)
C7_RealAddSuccessEnabledAndListed ==
    (last.op = "add" /\ last.err = Nil /\ ~last.dryRun) =>
        /\ IsEnabled(driverName, CurrentFS, last.domain)
        /\ <<last.domain, "">> \in List(driverName, CurrentFS)

(* A successful Add of a proxy vhost that was not a dry run.               *)
C7_Witness ==
    last.op = "add" /\ last.err = Nil /\ ~last.dryRun /\ last.type = TypeProxy

(* C8: a runDisable that calls drv.Disable on a domain whose activation    *)
(* path holds a symlink leaves drv.IsEnabled(domain) false and returns     *)
(* success, whatever drv.Test and drv.Reload return, and never calls       *)
(* drv.Enable.                                                             *)
C8_DisableSticks ==
    (/\ last.op = "disable" /\ Called("Disable")
     /\ last.preFS.enabled[TargetFile].kind = "symlink") =>
        /\ ~IsEnabled(driverName, CurrentFS, last.domain)
        /\ last.err = Nil
        /\ last.out = "success"
        /\ ~Called("Enable")

(* A disable of an activated vhost whose post-disable test failed.         *)
C8_Witness ==
    /\ last.op = "disable" /\ Called("Disable") /\ Failed("Test")
    /\ last.preFS.enabled[TargetFile].kind = "symlink"

(* C9 as stated: with --force, when drv.Remove succeeded and drv.Test or   *)
(* drv.Reload failed, runRemove returns success, the config file and the   *)
(* activation link are absent and the registry has no entry for the        *)
(* domain.                                                                 *)
C9_ForcedRemoveDeletesEntry ==
    (/\ last.op = "remove" /\ last.force /\ Succeeded("Remove")
     /\ (Failed("Test") \/ Failed("Reload"))) =>
        /\ last.err = Nil
        /\ available[TargetFile] = NoEntry
        /\ enabled[TargetFile] = NoEntry
        /\ ~registry[last.domain].exists

(* C9 amended: under the same conditions runRemove returns success and the *)
(* file and the link are absent; the registry has no entry for the domain  *)
(* unless the registry save failed, and then the save failure is warned    *)
(* about and the registry is as it was.                                    *)
C9_ForcedRemoveDeletesEntryUnlessSaveFails ==
    (/\ last.op = "remove" /\ last.force /\ Succeeded("Remove")
     /\ (Failed("Test") \/ Failed("Reload"))) =>
        /\ last.err = Nil
        /\ last.out = "success"
        /\ available[TargetFile] = NoEntry
        /\ enabled[TargetFile] = NoEntry
        /\ IF Warned("VHost removed but config save failed")
           THEN registry = last.preReg
           ELSE ~registry[last.domain].exists

(* A forced remove of a registered, activated vhost whose reload failed.   *)
C9_Witness ==
    /\ last.op = "remove" /\ last.force /\ Succeeded("Remove") /\ Failed("Reload")
    /\ last.preReg[last.domain].exists
    /\ last.preFS.enabled[TargetFile].kind = "symlink"
    /\ ~registry[last.domain].exists

(* C10: for the configured driver (any of the three), Disable of a domain  *)
(* whose activation path holds a regular file or a directory returns an    *)
(* error and leaves the filesystem as it is; a runDisable that meets such  *)
(* an entry gets the not-a-symlink error and changes nothing.              *)
C10_DisableRefusesNonSymlink ==
    /\ \A d \in Domains :
           enabled[ConfigFileName(driverName, d)].kind \in {"file", "dir"} =>
               /\ Disable(driverName, CurrentFS, d).err # Nil
               /\ Disable(driverName, CurrentFS, d).fs = CurrentFS
    /\ (/\ last.op = "disable" /\ Called("Disable")
        /\ last.preFS.enabled[TargetFile].kind \in {"file", "dir"}) =>
           /\ last.trace[1] = Ev("Disable", last.domain, "is not a symlink, refusing to remove")
           /\ last.err # Nil
           /\ enabled = last.preFS.enabled
           /\ available = last.preFS.available

(* A disable that met a regular file at the activation path.               *)
C10_Witness ==
    /\ last.op = "disable" /\ Called("Disable")
    /\ last.preFS.enabled[TargetFile].kind = "file"

(* C11: when drv.Enable succeeded and drv.Test failed during the Enable    *)
(* workflow, drv.Disable(domain) is called after the test, the activation  *)
(* path is empty when runEnable returns, the registry (and so the entry's  *)
(* Enabled flag) is as it was, and the error is "configuration test        *)
(* failed".                                                                *)
C11_EnableTestFailureRollsBack ==
    (last.op = "enable" /\ Succeeded("Enable") /\ Failed("Test")) =>
        /\ \E i, j \in DOMAIN last.trace :
               /\ i < j
               /\ last.trace[i].call = "Test"
               /\ last.trace[j].call = "Disable" /\ last.trace[j].domain = last.domain
        /\ enabled[TargetFile] = NoEntry
        /\ registry = last.preReg
        /\ last.err = "configuration test failed"

(* An Enable of a registered vhost whose test failed after the link was    *)
(* made.                                                                   *)
C11_Witness ==
    /\ last.op = "enable" /\ Succeeded("Enable") /\ Failed("Test")
    /\ last.preReg[last.domain].exists

(* A rollback call of the latest invocation failed: a drv.Disable or a     *)
(* drv.Remove that follows a failed drv.Enable or drv.Test returned an     *)
(* error.                                                                  *)
RollbackFailed ==
    \E i, j \in DOMAIN last.trace :
        /\ i < j
        /\ last.trace[i].call \in {"Enable", "Test"} /\ last.trace[i].err # Nil
        /\ last.trace[j].call \in {"Disable", "Remove"} /\ last.trace[j].err # Nil

(* C12: whenever a rollback call fails during Add or Enable, a warning is  *)
(* printed and the workflow returns the error of the step that failed      *)
(* first.                                                                  *)
C12_RollbackFailureWarned ==
    (last.op \in {"add", "enable"} /\ RollbackFailed) =>
        /\ last.warns # <<>>
        /\ IF Failed("Test") THEN last.err = "configuration test failed"
           ELSE last.err = "failed to enable vhost"

(* The latest invocation warned that the registry save failed.             *)
SaveFailed ==
    \/ Warned("VHost created but config save failed")
    \/ Warned("VHost enabled but config save failed")
    \/ Warned("VHost disabled but config save failed")
    \/ Warned("VHost removed but config save failed")

(* Every driver call of the latest invocation returned nil.                *)
AllCallsSucceeded == \A i \in DOMAIN last.trace : last.trace[i].err = Nil

(* The on-disk target state of the latest workflow.                        *)
OnDiskTarget ==
    CASE last.op = "add" ->
             /\ available[TargetFile] = FileEntry(Render(driverName, RequestedVHost).text)
             /\ enabled[TargetFile] = SymlinkEntry(TargetFile)
      [] last.op = "enable" ->
             /\ enabled[TargetFile] = SymlinkEntry(TargetFile)
             /\ available = last.preFS.available
      [] last.op = "disable" ->
             /\ enabled[TargetFile] = NoEntry
             /\ available = last.preFS.available
      [] last.op = "remove" ->
             /\ enabled[TargetFile] = NoEntry
             /\ available[TargetFile] = NoEntry

(* C13: an Add, Enable, Disable or Remove whose driver calls all succeeded *)
(* and whose registry save failed returns success, leaves the on-disk      *)
(* target state of the workflow, and leaves the registry file as it was.   *)
C13_SaveFailureIsOnlyAWarning ==
    (/\ last.op \in {"add", "enable", "disable", "remove"}
     /\ SaveFailed /\ AllCallsSucceeded) =>
        /\ last.err = Nil
        /\ last.out = "success"
        /\ OnDiskTarget
        /\ registry = last.preReg

(* An Add that wrote and activated the vhost and could not save the        *)
(* registry.                                                               *)
C13_Witness ==
    /\ last.op = "add" /\ SaveFailed /\ AllCallsSucceeded
    /\ Called("Reload")

(* C14: when drv.Remove fails, runRemove returns an error, calls neither   *)
(* drv.Test nor drv.Reload and leaves the registry as it was; a registry   *)
(* entry that a remove deleted was deleted after a successful drv.Remove.  *)
C14_RegistryDeletedAfterDriverRemove ==
    /\ (last.op = "remove" /\ Failed("Remove")) =>
           /\ last.err # Nil
           /\ ~Called("Test")
           /\ ~Called("Reload")
           /\ registry = last.preReg
    /\ (/\ last.op = "remove"
        /\ last.preReg[TargetDomain].exists
        /\ ~registry[TargetDomain].exists) =>
           /\ last.trace # <<>>
           /\ last.trace[1] = Ev("Remove", TargetDomain, Nil)

(* A remove of a registered vhost whose drv.Remove failed.                 *)
C14_Witness ==
    /\ last.op = "remove" /\ Failed("Remove")
    /\ last.preReg[last.domain].exists

(* The call trace Add, Enable, Test, Reload for the domain of the latest   *)
(* invocation, every call returning nil.                                   *)
FullAddTrace ==
    << Ev("Add", last.domain, Nil), Ev("Enable", last.domain, Nil),
       Ev("Test", "", Nil), Ev("Reload", "", Nil) >>

(* C15 as stated: whenever runAdd, run with reload enabled, returns        *)
(* success, its call trace is exactly Add, Enable, Test, Reload, and       *)
(* whenever it changed the registry that trace came first.                 *)
C15_SuccessfulAddTrace ==
    /\ (last.op = "add" /\ ~last.noReload /\ last.err = Nil) =>
           last.trace = FullAddTrace
    /\ (last.op = "add" /\ ~last.noReload /\ registry # last.preReg) =>
           last.trace = FullAddTrace

(* C15 amended: the same for a runAdd that was not a dry run.              *)
C15_SuccessfulRealAddTrace ==
    /\ (last.op = "add" /\ ~last.noReload /\ ~last.dryRun /\ last.err = Nil) =>
           last.trace = FullAddTrace
    /\ (last.op = "add" /\ ~last.noReload /\ registry # last.preReg) =>
           /\ last.trace = FullAddTrace
           /\ registry = [last.preReg EXCEPT ![last.domain] = RequestedVHost]

(* A successful Add with reload that registered the domain.                *)
C15_Witness ==
    /\ last.op = "add" /\ ~last.noReload /\ ~last.dryRun /\ last.err = Nil
    /\ registry[last.domain].exists

(* The latest invocation failed a precondition: its domain is invalid; or  *)
(* it is an add with an invalid type, a missing or invalid --root/--proxy, *)
(* or a domain the registry already holds; or it reached the privilege     *)
(* check (add, enable and disable reach it outside a dry run, remove       *)
(* always) as a user other than root.                                      *)
PreconditionFailed ==
    /\ last.op \in {"add", "enable", "disable", "remove"}
    /\ \/ validateDomain(last.domain) # Nil
       \/ /\ last.op = "add"
          /\ validateDomain(last.domain) = Nil
          /\ \/ ~IsValidType(last.type)
             \/ validateAddOptions(last.type, last.root, last.proxyPass) # Nil
             \/ last.preReg[last.domain].exists
       \/ /\ validateDomain(last.domain) = Nil
          /\ ~last.isRoot
          /\ last.op = "remove" \/ ~last.dryRun

(* C16: an invocation of add, enable, disable or remove that fails a       *)
(* precondition returns an error, calls no driver operation, and leaves    *)
(* the registry and the filesystem as they were.                           *)
C16_PreconditionFailureAbortsEarly ==
    PreconditionFailed =>
        /\ last.err # Nil
        /\ last.trace = <<>>
        /\ registry = last.preReg
        /\ CurrentFS = last.preFS

(* An add that passed validation and was stopped by the privilege check.   *)
C16_Witness ==
    /\ PreconditionFailed
    /\ last.op = "add" /\ ~last.isRoot
    /\ last.err = "this operation requires root privileges"

(* The latest two driver calls were both drv.Remove of the domain and the  *)
(* first of them succeeded.                                                *)
RemovedTwice ==
    /\ last.op = "Remove"
    /\ Len(last.trace) = 2
    /\ last.trace[1] = Ev("Remove", last.domain, Nil)

(* C17: drv.Remove of a domain whose config file exists succeeds and       *)
(* leaves neither the file nor the enabled link; a drv.Remove that follows *)
(* a successful one returns not-found and leaves the filesystem as it was. *)
C17_RemoveTwice ==
    /\ (last.op = "Remove" /\ last.preFS.available[TargetFile].kind = "file") =>
           /\ last.err = Nil
           /\ available[TargetFile] = NoEntry
           /\ last.preFS.enabled[TargetFile].kind = "symlink" => enabled[TargetFile] = NoEntry
    /\ RemovedTwice =>
           /\ last.err = "not found"
           /\ CurrentFS = last.preFS

(* C18: drv.Enable returns not-found when nothing is at the config path;   *)
(* failing that, already-enabled when anything is at the activation path;  *)
(* failing that, it succeeds and creates the symlink to the config path.   *)
(* Both failures leave the filesystem as it was.                           *)
C18_EnablePreconditions ==
    last.op = "Enable" =>
        IF last.preFS.available[TargetFile] = NoEntry
        THEN last.err = "not found in sites-available" /\ CurrentFS = last.preFS
        ELSE IF last.preFS.enabled[TargetFile] # NoEntry
        THEN last.err = "is already enabled" /\ CurrentFS = last.preFS
        ELSE /\ last.err = Nil
             /\ enabled = [last.preFS.enabled EXCEPT ![TargetFile] = SymlinkEntry(TargetFile)]
             /\ available = last.preFS.available
             /\ docroots = last.preFS.docroots

(* drv.Enable refused a regular file at the activation path.               *)
C18_Witness ==
    /\ last.op = "Enable"
    /\ last.preFS.available[TargetFile].kind = "file"
    /\ last.preFS.enabled[TargetFile].kind = "file"
    /\ last.err = "is already enabled"

(* C19: drv.IsEnabled returns no error, and returns true exactly when the  *)
(* activation path holds a symlink that resolves to the domain's config    *)
(* file.                                                                   *)
C19_IsEnabledIffResolvingSymlink ==
    last.op = "IsEnabled" =>
        /\ last.err = Nil
        /\ last.out = "true" <=>
               /\ enabled[TargetFile] = SymlinkEntry(TargetFile)
               /\ available[TargetFile].kind = "file"

(* C20: when drv.Enable fails in the Enable workflow, runEnable returns an *)
(* error, calls none of Test, Reload and Disable, and leaves the           *)
(* filesystem and the registry as they were.                               *)
C20_EnableFailureStopsWorkflow ==
    (last.op = "enable" /\ Failed("Enable")) =>
        /\ last.err = "failed to enable vhost"
        /\ last.trace = << Ev("Enable", last.domain, last.trace[1].err) >>
        /\ ~Called("Test") /\ ~Called("Reload") /\ ~Called("Disable")
        /\ CurrentFS = last.preFS
        /\ registry = last.preReg

(* An Enable workflow whose drv.Enable found the link already there.       *)
C20_Witness ==
    /\ last.op = "enable" /\ Failed("Enable")
    /\ last.preFS.enabled[TargetFile].kind = "symlink"

(* The latest invocation is a remove that reached the confirmation prompt. *)
Prompted ==
    /\ last.op = "remove"
    /\ validateDomain(last.domain) = Nil
    /\ last.isRoot
    /\ ~last.force

(* C21: a remove without --force goes on to drv.Remove when the line read  *)
(* is "y" or " YES" (which trim and lower-case to "y" and "yes"); for      *)
(* "n", an empty line and end of input it returns success with no driver   *)
(* call and leaves the registry and the filesystem as they were.           *)
C21_RemoveNeedsConfirmation ==
    Prompted =>
        IF last.answer \in {"y", " YES"}
        THEN last.trace # <<>> /\ last.trace[1].call = "Remove"
        ELSE /\ last.err = Nil
             /\ last.out = "cancelled"
             /\ last.trace = <<>>
             /\ registry = last.preReg
             /\ CurrentFS = last.preFS

(* A remove of a registered domain cancelled by end of input.              *)
C21_Witness ==
    /\ Prompted
    /\ last.answer = ""
    /\ last.out = "cancelled"
    /\ last.preReg[last.domain].exists
    /\ last.preFS.available[TargetFile].kind = "file"

(* A remove confirmed by " YES".                                           *)
C21_ConfirmedWitness == Prompted /\ last.answer = " YES" /\ Succeeded("Remove")

(* The number of drv.Test calls of the latest invocation.                  *)
TestCalls == Cardinality({i \in DOMAIN last.trace : last.trace[i].call = "Test"})

(* The driver step that precedes testAndReload succeeded: Enable for add   *)
(* and enable, Disable for disable.                                        *)
ReachedTestStep ==
    \/ last.op \in {"add", "enable"} /\ Succeeded("Enable")
    \/ last.op = "disable" /\ last.trace # <<>> /\ last.trace[1] = Ev("Disable", last.domain, Nil)

(* C22: an add, enable or disable run with --no-reload never calls         *)
(* drv.Reload, and once its driver step has succeeded it calls drv.Test    *)
(* exactly once.                                                           *)
C22_NoReloadSkipsReloadOnly ==
    (last.op \in {"add", "enable", "disable"} /\ last.noReload) =>
        /\ ~Called("Reload")
        /\ ReachedTestStep => TestCalls = 1

(* A successful add run with --no-reload.                                  *)
C22_Witness ==
    /\ last.op = "add" /\ last.noReload /\ ReachedTestStep
    /\ last.out = "success"

(* The latest command line passes validation: a valid domain and, for     *)
(* add, a valid type with its --root or --proxy and a domain the registry  *)
(* does not hold.                                                          *)
ValidRequest ==
    /\ validateDomain(last.domain) = Nil
    /\ last.op = "add" =>
           /\ IsValidType(last.type)
           /\ validateAddOptions(last.type, last.root, last.proxyPass) = Nil
           /\ ~last.preReg[last.domain].exists

(* C23: an add, enable or disable started with --dry-run on a command line *)
(* that passes validation returns success, as root or not, calls no driver *)
(* operation, and leaves the registry and the filesystem as they were.     *)
C23_DryRunChangesNothing ==
    (last.op \in {"add", "enable", "disable"} /\ last.dryRun /\ ValidRequest) =>
        /\ last.err = Nil
        /\ last.trace = <<>>
        /\ registry = last.preReg
        /\ CurrentFS = last.preFS

(* C24: a remove started with --dry-run calls none of drv.Remove,          *)
(* drv.Test and drv.Reload, and a registry entry the domain had is still   *)
(* there afterwards.                                                       *)
C24_DryRunRemoveChangesNothing ==
    (last.op = "remove" /\ last.dryRun /\ validateDomain(last.domain) = Nil) =>
        /\ ~Called("Remove") /\ ~Called("Test") /\ ~Called("Reload")
        /\ last.preReg[last.domain].exists => registry[last.domain].exists

(* C25: drv.Reload runs the service-manager command first; it runs the     *)
(* backend's fallback command next exactly when the first command failed,  *)
(* and nothing after that; it returns an error exactly when both failed.   *)
C25_ReloadFallsBackOnce ==
    last.op = "Reload" =>
        /\ Len(last.cmds) \in {1, 2}
        /\ last.cmds[1].cmd = ServiceCommand(driverName)
        /\ Len(last.cmds) = 2 <=> ~last.cmds[1].ok
        /\ Len(last.cmds) = 2 => last.cmds[2].cmd = FallbackCommand(driverName)
        /\ last.err # Nil <=> \A i \in DOMAIN last.cmds : ~last.cmds[i].ok
        /\ CurrentFS = last.preFS

(* A Reload that succeeded through the fallback command.                   *)
C25_Witness ==
    /\ last.op = "Reload" /\ last.err = Nil
    /\ Len(last.cmds) = 2 /\ ~last.cmds[1].ok /\ last.cmds[2].ok

(* C26: after a successful drv.Add the domain's config file holds exactly  *)
(* the text handed to Add, whatever the path held before, and every other  *)
(* entry of the two directories is as it was.                              *)
C26_AddOverwrites ==
    (last.op = "Add" /\ last.err = Nil) =>
        /\ available = [last.preFS.available EXCEPT ![TargetFile] = FileEntry(last.text)]
        /\ enabled = last.preFS.enabled

(* An Add that succeeded over a file with another content.                 *)
C26_Witness ==
    /\ last.op = "Add" /\ last.err = Nil
    /\ last.preFS.available[TargetFile].kind = "file"
    /\ last.preFS.available[TargetFile].data # last.text

(* Two successful Adds in a row with the same text.                        *)
C26_RepeatWitness ==
    /\ last.op = "Add" /\ last.err = Nil
    /\ Len(last.trace) = 2 /\ last.trace[1] = Ev("Add", last.domain, Nil)
    /\ last.preFS.available[TargetFile] = FileEntry(last.text)

(* The names C27 expects of List: the entries of the available directory  *)
(* that are no directories and not hidden; for Apache those of them that   *)
(* end in ".conf", without the suffix.                                     *)
ExpectedList ==
    LET visible == {n \in FileNames :
                       /\ available[n].kind \in {"file", "symlink"}
                       /\ n[1] # HiddenName}
    IN  IF driverName = "apache"
        THEN {<<n[1], "">> : n \in {m \in visible : m[2] = ".conf"}}
        ELSE visible

(* C27: drv.List returns no error and exactly the expected names, and the  *)
(* empty list when the available directory does not exist.                 *)
C27_ListNames ==
    last.op = "List" =>
        /\ last.err = Nil
        /\ last.listed = ExpectedList
        /\ last.out = "missing" => last.listed = {}

(* A List over a directory with a config file, a hidden file and a file    *)
(* named by the other convention.                                          *)
C27_Witness ==
    /\ last.op = "List"
    /\ available[ConfigFileName(driverName, TargetDomain)].kind = "file"
    /\ available[ConfigFileName(driverName, HiddenName)].kind = "file"
    /\ available[StrayName(driverName)].kind = "file"

(* A List of a directory that does not exist.                              *)
C27_MissingWitness == last.op = "List" /\ last.out = "missing"

(* C28: a vhost that add wrote to the registry carries no document root if *)
(* its type is proxy and no proxy target if its type is any other.         *)
C28_RootOrProxyNotBoth ==
    (/\ last.op = "add"
     /\ validateDomain(last.domain) = Nil
     /\ ~last.preReg[last.domain].exists
     /\ registry[last.domain].exists) =>
        /\ registry[last.domain].type = TypeProxy => registry[last.domain].root = ""
        /\ registry[last.domain].type # TypeProxy => registry[last.domain].proxyPass = ""

(* C29: an add whose command line passes validation never fails to find   *)
(* its template, whichever driver is configured.                           *)
C29_TemplateAlwaysFound ==
    (last.op = "add" /\ ValidRequest) =>
        /\ Render(driverName, RequestedVHost).err = Nil
        /\ last.err # "failed to render template"

(* The correspondence of C30 between the directories of two drivers: the   *)
(* entry a driver keeps for a name under its own file name (bare, or with  *)
(* ".conf") corresponds to the entry the other driver keeps for that name  *)
(* under its file name, a symlink to a config file to a symlink to the     *)
(* corresponding config file.  A filesystem has a counterpart only if all  *)
(* its entries are named by its driver's convention.                       *)
Names == Domains \cup {HiddenName}

DriverExt(drv) == ConfigFileName(drv, TargetDomain)[2]

Conventional(drv, fs) ==
    \A n \in FileNames :
        n[2] # DriverExt(drv) => fs.available[n] = NoEntry /\ fs.enabled[n] = NoEntry

ViewEntry(e) == IF e.kind = "symlink" THEN [kind |-> "symlink", data |-> e.data[1]] ELSE e

ViewDir(drv, dir) == [d \in Names |-> ViewEntry(dir[ConfigFileName(drv, d)])]

ViewFS(drv, fs) ==
    [available |-> ViewDir(drv, fs.available), enabled |-> ViewDir(drv, fs.enabled),
     docroots |-> fs.docroots]

CorrEntry(drv, e) ==
    IF e.kind = "symlink" THEN SymlinkEntry(ConfigFileName(drv, e.data)) ELSE e

CorrDir(drv, view) ==
    [n \in FileNames |-> IF n[2] = DriverExt(drv) THEN CorrEntry(drv, view[n[1]]) ELSE NoEntry]

CorrFS(drv, view) ==
    FS(CorrDir(drv, view.available), CorrDir(drv, view.enabled), view.docroots)

(* Two driver calls returned the same error and left corresponding         *)
(* filesystems.                                                            *)
SameOutcome(drv1, ret1, drv2, ret2) ==
    /\ ret1.err = ret2.err
    /\ ViewFS(drv1, ret1.fs) = ViewFS(drv2, ret2.fs)

StaticVHost(domain) ==
    VHost(domain, TypeStatic, AbsRoot, "", "", FALSE, NoPath, NoPath, TRUE)

(* The driver other, started on the counterpart of the filesystem fs of    *)
(* the driver drv, answers every call as drv answers it on fs.             *)
Equivalent(drv, fs, other, there) ==
    \A d \in Domains :
        /\ \A text \in ConfigTexts :
               SameOutcome(drv, Add(drv, fs, StaticVHost(d), text),
                           other, Add(other, there, StaticVHost(d), text))
        /\ SameOutcome(drv, Remove(drv, fs, d), other, Remove(other, there, d))
        /\ SameOutcome(drv, Enable(drv, fs, d), other, Enable(other, there, d))
        /\ SameOutcome(drv, Disable(drv, fs, d), other, Disable(other, there, d))
        /\ IsEnabled(drv, fs, d) = IsEnabled(other, there, d)
        /\ \A missing \in BOOLEAN :
               ListDir(drv, fs, missing) = ListDir(other, there, missing)

(* C30: in every state a sequence of driver calls reaches from a           *)
(* filesystem named by the driver's convention, each of the other two      *)
(* drivers, put on the corresponding filesystem, returns the same error    *)
(* or result for every next call and leaves the corresponding filesystem.  *)
C30_DriversEquivalent ==
    Conventional(driverName, CurrentFS) =>
        \A other \in Drivers :
            Equivalent(driverName, CurrentFS,
                       other, CorrFS(other, ViewFS(driverName, CurrentFS)))

(* The apache driver after a call sequence that left a config file, a      *)
(* hidden file and a non-symlink at the activation path.                   *)
C30_Witness ==
    /\ driverName = "apache"
    /\ Conventional(driverName, CurrentFS)
    /\ Len(last.trace) = 2
    /\ available[ConfigFileName(driverName, TargetDomain)].kind = "file"
    /\ enabled[ConfigFileName(driverName, TargetDomain)].kind \in {"file", "dir"}

(* C31: when drv.Enable fails during an add, whatever was at the domain's  *)
(* activation path before the add began is still there when runAdd         *)
(* returns.                                                                *)
C31_EnableFailureKeepsExistingLink ==
    (last.op = "add" /\ Failed("Enable")) =>
        enabled[TargetFile] = last.preFS.enabled[TargetFile]

(* The registry entry of d has a config file behind it.                    *)
HasConfigFile(d) == available[ConfigFileName(driverName, d)].kind = "file"

(* C32 as stated: on a machine that started empty, every registered domain *)
(* has a config file and its Enabled flag equals drv.IsEnabled.            *)
C32_RegistryMatchesDisk ==
    \A d \in Domains :
        registry[d].exists =>
            /\ HasConfigFile(d)
            /\ registry[d].enabled = IsEnabled(driverName, CurrentFS, d)

(* C32 amended: every registered domain has a config file, and is enabled  *)
(* on disk if its Enabled flag is set.                                     *)
C32_RegistryBackedByDisk ==
    \A d \in Domains :
        registry[d].exists =>
            /\ HasConfigFile(d)
            /\ registry[d].enabled => IsEnabled(driverName, CurrentFS, d)

(* A registered domain that was disabled and enabled again.                *)
C32_Witness ==
    /\ last.op = "enable" /\ last.err = Nil
    /\ last.preReg[TargetDomain].exists /\ ~last.preReg[TargetDomain].enabled
    /\ registry[TargetDomain].enabled

(* C33: drv.Remove of a domain whose activation path holds a regular file  *)
(* returns an error and leaves that file, the config file and everything   *)
(* else on disk as it was.                                                 *)
C33_RemoveRefusesForeignFile ==
    (last.op = "Remove" /\ last.preFS.enabled[TargetFile].kind = "file") =>
        /\ last.err = "is not a symlink, refusing to remove"
        /\ enabled[TargetFile] = last.preFS.enabled[TargetFile]
        /\ available[TargetFile] = last.preFS.available[TargetFile]
        /\ CurrentFS = last.preFS

(* A Remove refused with both the foreign file and the config file there.  *)
C33_Witness ==
    /\ last.op = "Remove" /\ last.err # Nil
    /\ last.preFS.enabled[TargetFile].kind = "file"
    /\ available[TargetFile].kind = "file"

(* C34: a drv.Remove that returns the not-found error has left the         *)
(* filesystem as it was, the domain's activation link included.            *)
C34_NotFoundChangesNothing ==
    (last.op = "Remove" /\ last.err = "not found") =>
        /\ enabled[TargetFile] = last.preFS.enabled[TargetFile]
        /\ CurrentFS = last.preFS

(* C35: an add, enable, disable or remove for a domain leaves every entry  *)
(* of the two directories other than that domain's config file and         *)
(* activation path, and every registry entry other than that domain's, as  *)
(* it was.                                                                 *)
C35_OtherDomainsUntouched ==
    (last.op \in {"add", "enable", "disable", "remove"} /\ validateDomain(last.domain) = Nil) =>
        /\ \A n \in FileNames \ {TargetFile} :
               /\ available[n] = last.preFS.available[n]
               /\ enabled[n] = last.preFS.enabled[n]
        /\ \A d \in Domains \ {last.domain} : registry[d] = last.preReg[d]

(* A remove that deleted the domain's file, link and entry next to another *)
(* domain's.                                                               *)
C35_Witness ==
    /\ last.op = "remove" /\ Succeeded("Remove")
    /\ last.preFS.enabled[TargetFile].kind = "symlink"
    /\ ~registry[TargetDomain].exists /\ last.preReg[TargetDomain].exists
    /\ registry[Bystander].exists
    /\ enabled[ConfigFileName(driverName, Bystander)].kind = "symlink"

(* An add rolled back next to another domain's file, link and entry.       *)
C35_RollbackWitness ==
    /\ last.op = "add" /\ Failed("Test") /\ Succeeded("Remove")
    /\ registry[Bystander].exists

(* The latest invocation is an enable or a disable, run as root and not as *)
(* a dry run, of a domain that has no registry entry and has its config    *)
(* file on disk: not yet linked for enable, linked for disable.            *)
UnregisteredOnDisk ==
    /\ last.op \in {"enable", "disable"}
    /\ validateDomain(last.domain) = Nil
    /\ last.isRoot /\ ~last.dryRun
    /\ ~last.preReg[last.domain].exists
    /\ last.preFS.available[TargetFile].kind = "file"
    /\ last.preFS.enabled[TargetFile] =
           IF last.op = "enable" THEN NoEntry ELSE SymlinkEntry(TargetFile)

C36_DisableWitness ==
    /\ UnregisteredOnDisk /\ last.op = "disable"
    /\ last.out = "success"
    /\ enabled[TargetFile] = NoEntry

(* C37: when drv.Test fails in an ssl install that wrote and activated the *)
(* TLS config, that config is deactivated and removed, and the registry    *)
(* keeps the entry without its TLS fields.                                 *)
C37_SSLInstallRollsBackOnTestFailure ==
    (/\ last.op = "ssl install"
     /\ Succeeded("Add") /\ Succeeded("Enable")
     /\ Failed("Test")) =>
        /\ enabled[TargetFile] = NoEntry
        /\ available[TargetFile] = NoEntry
        /\ registry = last.preReg

(* Process p returned success after writing the registry.                  *)
AddedAndSaved(p) == running[p].pc = "done" /\ running[p].err = Nil /\ running[p].saved

(* C38: when two concurrent adds of different domains each loaded the      *)
(* registry before the other saved it, and both returned success with the  *)
(* registry written, the registry holds exactly one of the two domains:    *)
(* the write that came second dropped the entry of the first.              *)
C38_StaleSaveLosesUpdate ==
    \A p, q \in Procs :
        (/\ p # q
         /\ AddedAndSaved(p) /\ AddedAndSaved(q)
         /\ running[p].domain # running[q].domain
         /\ ~running[p].cfg[running[q].domain].exists
         /\ ~running[q].cfg[running[p].domain].exists) =>
            registry[running[p].domain].exists # registry[running[q].domain].exists

(* Both adds returned success and the registry lacks b.com.                *)
C38_Witness ==
    /\ AddedAndSaved(1) /\ AddedAndSaved(2)
    /\ running[1].domain = "a.com" /\ running[2].domain = "b.com"
    /\ registry["a.com"].exists /\ ~registry["b.com"].exists

(* C39: when one of two concurrent adds of the same domain returned        *)
(* success with the registry written and the other failed in drv.Enable,   *)
(* the domain is registered and neither its config file nor its activation *)
(* link is on disk: the failed add's clean-up removed what the other made. *)
C39_CleanupDeletesOtherAddsConfig ==
    \A p, q \in Procs :
        (/\ p # q
         /\ running[p].domain = running[q].domain
         /\ AddedAndSaved(p)
         /\ running[q].pc = "done" /\ running[q].err = "failed to enable vhost") =>
            /\ registry[running[p].domain].exists
            /\ available[ConfigFileName(driverName, running[p].domain)] = NoEntry
            /\ enabled[ConfigFileName(driverName, running[p].domain)] = NoEntry

(* The first add succeeded, the second failed, and a.com is registered     *)
(* with nothing on disk.                                                   *)
C39_Witness ==
    /\ AddedAndSaved(1)
    /\ running[1].domain = "a.com" /\ running[2].domain = "a.com"
    /\ running[2].pc = "done" /\ running[2].err = "failed to enable vhost"
    /\ registry["a.com"].exists /\ registry["a.com"].enabled
    /\ available[ConfigFileName(driverName, "a.com")] = NoEntry
    /\ enabled[ConfigFileName(driverName, "a.com")] = NoEntry

====
